---- MODULE Spec2Model ----
(***************************************************************************)
(* SATER Map: the direction-finding engine of src/main.py and the handlers *)
(* of MainWindow that call it.                                             *)
(*                                                                         *)
(* Python floats are modelled in fixed point:                              *)
(*   - latitudes, longitudes and azimuths in 1/DegScale degree,            *)
(*   - angles in radians and values of sin/cos in 1/TrigScale,             *)
(*   - distances in 1/KmScale km (metres), areas in 1/KmScale km2.         *)
(* Every product or quotient of two such numbers is rounded to the nearest *)
(* unit (MulDiv), so a result is within a few units of the float result.   *)
(* TLC's integers are 32 bits wide: MulDiv never forms a*b.                *)
(***************************************************************************)
EXTENDS Integers, Sequences, FiniteSets, TLC

DegScale == 10^4
TrigScale == 10^6
KmScale == 10^3

\* math.pi in 1/TrigScale (even, so that pi/2 and radians(90) are the same number,
\* as they are in floats)
Pi == 3141592
HalfPi == Pi \div 2

\* Python's None, and a value that is not None
None == <<>>
Some(v) == <<v>>

Abs(x) == IF x < 0 THEN -x ELSE x
Sign(x) == IF x < 0 THEN -1 ELSE 1
Max(a, b) == IF a >= b THEN a ELSE b

(***************************************************************************)
(* Float arithmetic.  MulDiv(a, b, c) is a*b/c rounded to the nearest      *)
(* integer (half away from zero), computed by long multiplication in       *)
(* digits of DigitBase(c) so that no intermediate value leaves 32 bits.    *)
(* An operator hands its operands to a local function, so that each is     *)
(* evaluated once.                                                         *)
(***************************************************************************)
DigitBase(c) == IF c <= 2^20 THEN 1024 ELSE IF c <= 2^25 THEN 32 ELSE 2

\* <<quotient, remainder>> of r*b by c, for 0 <= r < c, one digit of b at a time
MulDivQR(r, b, c, base) ==
    LET step[h \in Nat \X Nat, m \in Nat] == <<base * h[1] + (m \div c), m % c>>
        shift[h \in Nat \X Nat, digit \in Nat] == step[h, base * h[2] + r * digit]
        qr[n \in Nat] == IF n = 0 THEN <<0, 0>> ELSE shift[qr[n \div base], n % base]
    IN  qr[b]

MulDiv(a, b, c) ==
    LET rounded[whole \in Nat, qr \in Nat \X Nat, cc \in Nat] ==
            whole + qr[1] + (IF 2 * qr[2] >= cc THEN 1 ELSE 0)
        magnitude[aa \in Nat, bb \in Nat, cc \in Nat] ==
            rounded[(aa \div cc) * bb, MulDivQR(aa % cc, bb, cc, DigitBase(cc)), cc]
        signed[x \in Int, y \in Int, z \in Int] ==
            Sign(x) * Sign(y) * Sign(z) * magnitude[Abs(x), Abs(y), Abs(z)]
    IN  signed[a, b, c]

\* a / k for a small integer k, rounded to the nearest integer
DivRound(a, k) ==
    LET div[x \in Int] == Sign(x) * ((2 * Abs(x) + k) \div (2 * k))
    IN  div[a]

\* the largest f of lo0..hi0-1 with f*f <= n, by bisection
SqrtSearch(lo0, hi0, n) ==
    LET search[lo \in Nat, hi \in Nat] ==
            IF hi - lo <= 1 THEN lo
            ELSE LET mid == (lo + hi) \div 2
                 IN  IF mid * mid <= n THEN search[mid, hi] ELSE search[lo, mid]
    IN  search[lo0, hi0]

\* math.sqrt of a non-negative integer below 2^31, rounded to the nearest integer
Sqrt(n) ==
    LET nearest[f \in Nat, m \in Nat] == IF m - f * f > f THEN f + 1 ELSE f
        root[m \in Nat] == nearest[SqrtSearch(0, 46341, m), m]
    IN  root[n]

\* sqrt(a**2 + b**2); operands too large to square in 32 bits are first scaled
\* down by 16, which keeps a relative precision of 2^-11 or better
Hypot(a0, b0) ==
    LET hyp[a \in Int, b \in Int] ==
            IF Abs(a) < 2^15 /\ Abs(b) < 2^15 THEN Sqrt(a * a + b * b)
            ELSE 16 * hyp[DivRound(a, 16), DivRound(b, 16)]
    IN  hyp[a0, b0]

\* an angle brought into (-pi, pi]
WrapPi(x) ==
    LET wrap[m \in Int] == IF m = 0 THEN Pi ELSE m - Pi
    IN  wrap[(x + Pi) % (2 * Pi)]

\* the Taylor series of sin to x^13, for -pi/2 <= x <= pi/2:
\* x * (1 - x2/6 * (1 - x2/20 * (1 - x2/42 * ( ... (1 - x2/156)))))
SinSeries(x) ==
    LET horner[x2 \in Int, t \in Int, k \in Nat] ==
            IF k = 0 THEN t
            ELSE horner[x2,
                        TrigScale - DivRound(MulDiv(x2, t, TrigScale), 2 * k * (2 * k + 1)),
                        k - 1]
        series[y \in Int] == MulDiv(y, horner[MulDiv(y, y, TrigScale), TrigScale, 6], TrigScale)
    IN  series[x]

\* math.sin, math.cos
Sin(x) ==
    LET folded[w \in Int] ==
            SinSeries(IF w > HalfPi THEN Pi - w ELSE IF w < -HalfPi THEN -Pi - w ELSE w)
    IN  folded[WrapPi(x)]

Cos(x) == Sin(x + HalfPi)

\* the angle of lo0..hi0 whose sine is nearest to v, by bisection
AsinSearch(lo0, hi0, v) ==
    LET nearest[lo \in Int, hi \in Int, below \in Int, above \in Int] ==
            IF v - below <= above - v THEN lo ELSE hi
        search[lo \in Int, hi \in Int] ==
            IF hi - lo <= 1 THEN nearest[lo, hi, Sin(lo), Sin(hi)]
            ELSE LET mid == (lo + hi) \div 2
                 IN  IF Sin(mid) <= v THEN search[mid, hi] ELSE search[lo, mid]
    IN  search[lo0, hi0]

\* math.asin: the angle of [-pi/2, pi/2] whose sine is v, by bisection
Asin(v) ==
    LET arc[u \in Int] ==
            IF u >= TrigScale THEN HalfPi
            ELSE IF u <= -TrigScale THEN -HalfPi
            ELSE AsinSearch(-HalfPi, HalfPi, u)
    IN  arc[v]

\* the largest angle of lo0..hi0-1 whose tangent is at most Y/X, by bisection
AtanSearch(lo0, hi0, Y, X) ==
    LET search[lo \in Int, hi \in Int] ==
            IF hi - lo <= 1 THEN lo
            ELSE LET mid == (lo + hi) \div 2
                 IN  IF MulDiv(X, Sin(mid), TrigScale) <= MulDiv(Y, Cos(mid), TrigScale)
                     THEN search[mid, hi]
                     ELSE search[lo, mid]
    IN  search[lo0, hi0]

\* math.atan2(y, x), in (-pi, pi]; atan2(0, 0) = 0 and atan2(0, x) = pi for x < 0
Atan2(y, x) ==
    LET quadrant[yy \in Int, xx \in Int, phi \in Int] ==
            IF xx > 0 THEN Sign(yy) * phi ELSE Sign(yy) * (Pi - phi)
        first[ay \in Nat, ax \in Nat, m \in Nat] ==
            AtanSearch(0, HalfPi, MulDiv(ay, TrigScale, m), MulDiv(ax, TrigScale, m))
        angle[yy \in Int, xx \in Int] ==
            IF yy = 0 THEN (IF xx < 0 THEN Pi ELSE 0)
            ELSE IF xx = 0 THEN Sign(yy) * HalfPi
            ELSE quadrant[yy, xx, first[Abs(yy), Abs(xx), Max(Abs(xx), Abs(yy))]]
    IN  angle[y, x]

\* math.radians, math.degrees
radians(d) == MulDiv(d, Pi, 180 * DegScale)
degrees(r) == MulDiv(r, 180 * DegScale, Pi)

(***************************************************************************)
(* The engine: src/main.py, lines 284 to 419.                              *)
(***************************************************************************)
\* the Earth radius of calc_endpoint_haversine, km
R == 6371

\* calc_endpoint_haversine(lat, lon, azimuth, dist_km) -> (lat2, lon2)
calc_endpoint_haversine(lat, lon, azimuth, dist_km) ==
    LET endpoint[lat2 \in Int, lon2 \in Int] == <<degrees(lat2), degrees(lon2)>>
        east[lat1 \in Int, lon1 \in Int, brng \in Int, dr \in Int, lat2 \in Int] ==
            endpoint[lat2,
                     lon1 + Atan2(MulDiv(MulDiv(Sin(brng), Sin(dr), TrigScale),
                                         Cos(lat1), TrigScale),
                                  Cos(dr) - MulDiv(Sin(lat1), Sin(lat2), TrigScale))]
        north[lat1 \in Int, lon1 \in Int, brng \in Int, dr \in Int] ==
            east[lat1, lon1, brng, dr,
                 Asin(MulDiv(Sin(lat1), Cos(dr), TrigScale)
                      + MulDiv(MulDiv(Cos(lat1), Sin(dr), TrigScale), Cos(brng), TrigScale))]
    IN  north[radians(lat), radians(lon), radians(azimuth), MulDiv(dist_km, TrigScale, R)]

\* the determinant of line_intersection, in 1/DegScale^2 square degree
Denominator(p1, p2, p3, p4) ==
    (p1[1] - p2[1]) * (p3[2] - p4[2]) - (p1[2] - p2[2]) * (p3[1] - p4[1])

\* line_intersection that returns a point of the first segment only (0 <= t <= 1)
line_intersection_within_segment(p1, p2, p3, p4) ==
    LET denom == Denominator(p1, p2, p3, p4)
        tnum  == (p1[1] - p3[1]) * (p3[2] - p4[2]) - (p1[2] - p3[2]) * (p3[1] - p4[1])
        px    == p1[1] + MulDiv(tnum, p2[1] - p1[1], denom)
        py    == p1[2] + MulDiv(tnum, p2[2] - p1[2], denom)
    IN  IF Abs(denom) < 1 \/ tnum * Sign(denom) < 0 \/ Abs(tnum) > Abs(denom)
        THEN None
        ELSE Some(<<px, py>>)

\* line_intersection(p1, p2, p3, p4) -> None or (px, py), points being (x, y).
\* The threshold 1e-10 square degree is 0.01 unit of the determinant: below it
\* the integer determinant is 0.
line_intersection(p1, p2, p3, p4) ==
    LET denom == Denominator(p1, p2, p3, p4)
        tnum  == (p1[1] - p3[1]) * (p3[2] - p4[2]) - (p1[2] - p3[2]) * (p3[1] - p4[1])
        px    == p1[1] + MulDiv(tnum, p2[1] - p1[1], denom)
        py    == p1[2] + MulDiv(tnum, p2[2] - p1[2], denom)
    IN  IF Abs(denom) < 1 THEN None ELSE Some(<<px, py>>)

\* the two segments calculate_all_intersections hands to line_intersection
\* (length_km is its parameter azimuth_length_km)
Chords(s1, s2, length_km) ==
    LET segments[end1 \in Int \X Int, end2 \in Int \X Int] ==
            <<<<s1.lon, s1.lat>>, <<end1[2], end1[1]>>,
              <<s2.lon, s2.lat>>, <<end2[2], end2[1]>>>>
    IN  segments[calc_endpoint_haversine(s1.lat, s1.lon, s1.azimuth, length_km),
                 calc_endpoint_haversine(s2.lat, s2.lon, s2.azimuth, length_km)]

\* diff1, diff2 of calculate_all_intersections: the difference between the
\* direction from the station to the point (int_lon, int_lat) and the azimuth
NormalisedDiff(s, int_lon, int_lat) ==
    LET normalised[diff \in Nat] == IF diff > Pi THEN 2 * Pi - diff ELSE diff
        difference[dir_to_inter \in Int, dir_azimuth \in Int] ==
            normalised[Abs(dir_to_inter - dir_azimuth)]
    IN  difference[Atan2(int_lon - s.lon, int_lat - s.lat), radians(s.azimuth)]

\* PairIntersection with the forward test made on the first station alone
PairIntersection_first_station(s1, s2, length_km) ==
    LET kept[int_lon \in Int, int_lat \in Int] ==
            IF /\ NormalisedDiff(s1, int_lon, int_lat) < HalfPi
               /\ -90 * DegScale <= int_lat /\ int_lat <= 90 * DegScale
               /\ -180 * DegScale <= int_lon /\ int_lon <= 180 * DegScale
            THEN <<<<int_lat, int_lon>>>>
            ELSE <<>>
        tested[inter \in Seq(Int \X Int)] ==
            IF inter = None THEN <<>> ELSE kept[inter[1][1], inter[1][2]]
        crossed[c \in Seq(Int \X Int)] == tested[line_intersection(c[1], c[2], c[3], c[4])]
    IN  crossed[Chords(s1, s2, length_km)]

\* PairIntersection with a forward test that accepts a deviation of 90 degrees
PairIntersection_right_angle(s1, s2, length_km) ==
    LET kept[int_lon \in Int, int_lat \in Int] ==
            IF /\ NormalisedDiff(s1, int_lon, int_lat) <= HalfPi
               /\ NormalisedDiff(s2, int_lon, int_lat) <= HalfPi
               /\ -90 * DegScale <= int_lat /\ int_lat <= 90 * DegScale
               /\ -180 * DegScale <= int_lon /\ int_lon <= 180 * DegScale
            THEN <<<<int_lat, int_lon>>>>
            ELSE <<>>
        tested[inter \in Seq(Int \X Int)] ==
            IF inter = None THEN <<>> ELSE kept[inter[1][1], inter[1][2]]
        crossed[c \in Seq(Int \X Int)] == tested[line_intersection(c[1], c[2], c[3], c[4])]
    IN  crossed[Chords(s1, s2, length_km)]

\* PairIntersection without the test of the latitude and longitude ranges
PairIntersection_any_range(s1, s2, length_km) ==
    LET kept[int_lon \in Int, int_lat \in Int] ==
            IF /\ NormalisedDiff(s1, int_lon, int_lat) < HalfPi
               /\ NormalisedDiff(s2, int_lon, int_lat) < HalfPi
            THEN <<<<int_lat, int_lon>>>>
            ELSE <<>>
        tested[inter \in Seq(Int \X Int)] ==
            IF inter = None THEN <<>> ELSE kept[inter[1][1], inter[1][2]]
        crossed[c \in Seq(Int \X Int)] == tested[line_intersection(c[1], c[2], c[3], c[4])]
    IN  crossed[Chords(s1, s2, length_km)]

\* the body of the loops of calculate_all_intersections for the pair (s1, s2):
\* the points it appends, none or one (lat, lon)
PairIntersection(s1, s2, length_km) ==
    LET kept[int_lon \in Int, int_lat \in Int] ==
            IF /\ NormalisedDiff(s1, int_lon, int_lat) < HalfPi
               /\ NormalisedDiff(s2, int_lon, int_lat) < HalfPi
               /\ -90 * DegScale <= int_lat /\ int_lat <= 90 * DegScale
               /\ -180 * DegScale <= int_lon /\ int_lon <= 180 * DegScale
            THEN <<<<int_lat, int_lon>>>>
            ELSE <<>>
        tested[inter \in Seq(Int \X Int)] ==
            IF inter = None THEN <<>> ELSE kept[inter[1][1], inter[1][2]]
        crossed[c \in Seq(Int \X Int)] == tested[line_intersection(c[1], c[2], c[3], c[4])]
    IN  crossed[Chords(s1, s2, length_km)]

(***************************************************************************)
(* The inputs of the model: the stations a mission file can hold, and the  *)
(* azimuth lengths of the length spin box that the model uses.             *)
(***************************************************************************)
\* the most rows the stations table holds
MaxStations == 3

\* position and azimuth of the stations, in 1/DegScale degree
StationA == [lat |-> 437000, lon |-> 72500, azimuth |-> 900000]    \* (43.70, 7.25) bearing 90
StationB == [lat |-> 438000, lon |-> 72500, azimuth |-> 1800000]   \* (43.80, 7.25) bearing 180
StationC == [lat |-> 438000, lon |-> 74500, azimuth |-> 2000000]   \* (43.80, 7.45) bearing 200
StationD == [lat |-> 431500, lon |-> 71500, azimuth |-> 1800000]   \* (43.15, 7.15) bearing 180

Bearings == {StationA, StationB, StationC, StationD}

\* values of length_spin (range 10..500 km)
LengthChoices == {100, 200}

\* the fields of a Station that the engine reads
Bearing(s) == [lat |-> s.lat, lon |-> s.lon, azimuth |-> s.azimuth]
StationOf(b, vis) == [lat |-> b.lat, lon |-> b.lon, azimuth |-> b.azimuth, visible |-> vis]

Range(f) == {f[i] : i \in DOMAIN f}

\* the lists of at most n distinct bearings
BearingLists(n) ==
    LET len == IF n < Cardinality(Bearings) THEN n ELSE Cardinality(Bearings)
    IN  { g \in UNION { [1..k -> Bearings] : k \in 0..len } : Cardinality(Range(g)) = Len(g) }

\* the lists of at most n distinct stations, all visible
StationLists(n) == { [i \in DOMAIN f |-> StationOf(f[i], TRUE)] : f \in BearingLists(n) }

\* what the engine reads of a list of stations
BearingsOf(table) == [i \in DOMAIN table |-> Bearing(table[i])]

\* more stations for the calls of the engine with two stations: one bearing
\* 350 and one bearing 270, each with the stations above ahead of it or behind
PairBearings ==
    Bearings \cup { [lat |-> 436000, lon |-> 71000, azimuth |-> 3500000],
                    [lat |-> 437000, lon |-> 73000, azimuth |-> 2700000] }

\* two stations next to the antimeridian, whose bearing lines cross beyond it
AntimeridianBearings ==
    { [lat |-> 100000, lon |-> 1795000, azimuth |-> 450000],
      [lat |-> 110000, lon |-> 1795000, azimuth |-> 1350000] }

\* the calls calculate_all_intersections([s1, s2], azimuth_length_km)
PairCalls ==
    { <<"calculate_all_intersections", <<g[1], g[2]>>, length_km>> :
          g \in { h \in (PairBearings \X PairBearings)
                          \cup (AntimeridianBearings \X AntimeridianBearings) : h[1] # h[2] },
          length_km \in LengthChoices }

\* the pairs of stations, with a length, that the model hands to the loop body
PairKeys ==
    (Bearings \X Bearings \X LengthChoices) \cup { <<c[2][1], c[2][2], c[3]>> : c \in PairCalls }

\* PairIntersection of every pair of stations of the model, computed once
PairMemo ==
    { <<k, PairIntersection(k[1], k[2], k[3])>> : k \in PairKeys }

\* what the loop body appends for the pair (s1, s2)
PairPoints(s1, s2, length_km) ==
    (CHOOSE e \in PairMemo : e[1] = <<Bearing(s1), Bearing(s2), length_km>>)[2]

\* LoopPairs with an inner loop "for j in range(i, n)"
LoopPairs_from_first_index(n) ==
    LET visit[i \in Nat, j \in Nat] ==
            IF i > n THEN <<>>
            ELSE IF j > n THEN visit[i + 1, i + 1]
            ELSE <<<<i, j>>>> \o visit[i, j + 1]
    IN  visit[1, 1]

\* the pairs (i, j) that "for i in range(n): for j in range(i + 1, n)" visits,
\* in the order of the visit (indices from 1)
LoopPairs(n) ==
    LET visit[i \in Nat, j \in Nat] ==
            IF i > n THEN <<>>
            ELSE IF j > n THEN visit[i + 1, i + 2]
            ELSE <<<<i, j>>>> \o visit[i, j + 1]
    IN  visit[1, 2]

\* AppendIntersections with loops that end at the first pair that appends nothing
AppendIntersections_break(pairs, stations, length_km) ==
    LET added[done \in Seq(Int \X Int) \X BOOLEAN, points \in Seq(Int \X Int)] ==
            IF done[2] \/ points = <<>> THEN <<done[1], TRUE>> ELSE <<done[1] \o points, FALSE>>
        intersections[k \in 0..Len(pairs)] ==
            IF k = 0 THEN <<<<>>, FALSE>>
            ELSE added[intersections[k - 1],
                       PairPoints(stations[pairs[k][1]], stations[pairs[k][2]], length_km)]
    IN  intersections[Len(pairs)][1]

\* "intersections" after the loops have visited the pairs given
AppendIntersections(pairs, stations, length_km) ==
    LET intersections[k \in 0..Len(pairs)] ==
            IF k = 0 THEN <<>>
            ELSE intersections[k - 1]
                 \o PairPoints(stations[pairs[k][1]], stations[pairs[k][2]], length_km)
    IN  intersections[Len(pairs)]

\* calculate_all_intersections(stations, length_km) -> [(lat, lon), ...]
calculate_all_intersections(stations, length_km) ==
    AppendIntersections(LoopPairs(Len(stations)), stations, length_km)

\* distance_km(lat1, lon1, lat2, lon2), in 1/KmScale km
distance_km(lat1, lon1, lat2, lon2) ==
    LET dlat == MulDiv(lat2 - lat1, 111 * KmScale, DegScale)
        dlon == MulDiv(MulDiv(lon2 - lon1, 111 * KmScale, DegScale),
                       Cos(MulDiv(lat1 + lat2, Pi, 2 * 180 * DegScale)), TrigScale)
    IN  Hypot(dlat, dlon)

\* the first pair of loops of smallest_enclosing_circle: <<max_dist, p1, p2>>
DiameterScan(pairs, points) ==
    LET farther[best \in Int \X (Int \X Int) \X (Int \X Int),
                d \in Int, pi \in Int \X Int, pj \in Int \X Int] ==
            IF d > best[1] THEN <<d, pi, pj>> ELSE best
        measured[best \in Int \X (Int \X Int) \X (Int \X Int),
                 pi \in Int \X Int, pj \in Int \X Int] ==
            farther[best, distance_km(pi[1], pi[2], pj[1], pj[2]), pi, pj]
        scan[k \in Nat] ==
            IF k = 0 THEN <<0, points[1], points[2]>>
            ELSE measured[scan[k - 1], points[pairs[k][1]], points[pairs[k][2]]]
    IN  scan[Len(pairs)]

\* the sweep "for p in points" that grows the circle: <<center_lat, center_lon, radius>>
GrowSweep(points, c0) ==
    LET moved[c \in Int \X Int \X Int, p \in Int \X Int, new_radius \in Int, ratio \in Int] ==
            <<c[1] + MulDiv(ratio, p[1] - c[1], TrigScale),
              c[2] + MulDiv(ratio, p[2] - c[2], TrigScale),
              new_radius>>
        enlarged[c \in Int \X Int \X Int, p \in Int \X Int, d \in Int, new_radius \in Int] ==
            moved[c, p, new_radius,
                  IF d > 0 THEN MulDiv(new_radius - c[3], TrigScale, d) ELSE 0]
        outside[c \in Int \X Int \X Int, p \in Int \X Int, d \in Int] ==
            IF d > c[3] THEN enlarged[c, p, d, DivRound(c[3] + d, 2)] ELSE c
        visited[c \in Int \X Int \X Int, p \in Int \X Int] ==
            outside[c, p, distance_km(c[1], c[2], p[1], p[2])]
        grown[k \in Nat] == IF k = 0 THEN c0 ELSE visited[grown[k - 1], points[k]]
    IN  grown[Len(points)]

\* the last loop "for p in points": the radius that covers every point
VerifySweep(points, center_lat, center_lon, radius0) ==
    LET larger[radius \in Int, d \in Int] == IF d > radius THEN d ELSE radius
        covered[k \in Nat] ==
            IF k = 0 THEN radius0
            ELSE larger[covered[k - 1],
                        distance_km(center_lat, center_lon, points[k][1], points[k][2])]
    IN  covered[Len(points)]

\* smallest_enclosing_circle with a radius of 0 for a single point
smallest_enclosing_circle_no_floor(points) ==
    LET midpoint[center_lat \in Int, center_lon \in Int] ==
            <<center_lat, center_lon,
              distance_km(center_lat, center_lon, points[1][1], points[1][2])>>
        verified[c \in Int \X Int \X Int] ==
            <<c[1], c[2], VerifySweep(points, c[1], c[2], c[3])>>
        diameter[best \in Int \X (Int \X Int) \X (Int \X Int)] ==
            verified[GrowSweep(points, <<DivRound(best[2][1] + best[3][1], 2),
                                         DivRound(best[2][2] + best[3][2], 2),
                                         DivRound(best[1], 2)>>)]
    IN  IF points = <<>> THEN <<0, 0, 0>>
        ELSE IF Len(points) = 1 THEN <<points[1][1], points[1][2], 0>>
        ELSE IF Len(points) = 2
        THEN midpoint[DivRound(points[1][1] + points[2][1], 2),
                      DivRound(points[1][2] + points[2][2], 2)]
        ELSE diameter[DiameterScan(LoopPairs(Len(points)), points)]

\* smallest_enclosing_circle(points) -> (center_lat, center_lon, radius)
smallest_enclosing_circle(points) ==
    LET floor[center_lat \in Int, center_lon \in Int, radius \in Int] ==
            <<center_lat, center_lon, Max(radius, KmScale \div 2)>>
        midpoint[center_lat \in Int, center_lon \in Int] ==
            floor[center_lat, center_lon,
                  distance_km(center_lat, center_lon, points[1][1], points[1][2])]
        verified[c \in Int \X Int \X Int] ==
            floor[c[1], c[2], VerifySweep(points, c[1], c[2], c[3])]
        diameter[best \in Int \X (Int \X Int) \X (Int \X Int)] ==
            verified[GrowSweep(points, <<DivRound(best[2][1] + best[3][1], 2),
                                         DivRound(best[2][2] + best[3][2], 2),
                                         DivRound(best[1], 2)>>)]
    IN  IF points = <<>> THEN <<0, 0, 0>>
        ELSE IF Len(points) = 1 THEN <<points[1][1], points[1][2], KmScale \div 2>>
        ELSE IF Len(points) = 2
        THEN midpoint[DivRound(points[1][1] + points[2][1], 2),
                      DivRound(points[1][2] + points[2][2], 2)]
        ELSE diameter[DiameterScan(LoopPairs(Len(points)), points)]

\* calculate_uncertainty_circle(intersections)
\*   -> None or (center_lat, center_lon, radius_km, surface_km2)
calculate_uncertainty_circle(intersections) ==
    LET data[c \in Int \X Int \X Int] ==
            Some(<<c[1], c[2], c[3], MulDiv(MulDiv(Pi, c[3], KmScale), c[3], TrigScale)>>)
    IN  IF intersections = <<>> THEN None
        ELSE data[smallest_enclosing_circle(intersections)]

\* what the two calls of a handler return: calculate_all_intersections(visible,
\* azimuth_length_km), then calculate_uncertainty_circle of its result
EngineCalls(visible, length_km) ==
    LET returned[intersections \in Seq(Int \X Int)] ==
            [intersections |-> intersections,
             circle_data   |-> calculate_uncertainty_circle(intersections)]
    IN  returned[calculate_all_intersections(visible, length_km)]

\* EngineCalls of every list of visible stations and every length of the model,
\* computed once
EngineMemo ==
    { <<k, EngineCalls(k[1], k[2])>> : k \in BearingLists(MaxStations) \X LengthChoices }

\* the entry of the table "engine" for the arguments given
EngineReturns(engine, visible, length_km) ==
    (CHOOSE e \in engine : e[1] = <<BearingsOf(visible), length_km>>)[2]

(***************************************************************************)
(* The callers of the engine: MainWindow._do_update_map and                *)
(* MainWindow.generate_pdf_report.                                         *)
(***************************************************************************)
\* VisibleStations without the test of s.visible
VisibleStations_all(stations) == stations

\* visible = [s for s in stations if s.visible]
VisibleStations(stations) == SelectSeq(stations, LAMBDA s : s.visible)

\* the texts of intersection_label; a number printed with 2 decimals (km, km2)
\* is rounded to 1/100, one printed with 6 decimals (degrees) is kept
LabelNone == <<"Zone d'intersection: -">>
LabelNoIntersection == <<"Pas d'intersection">>
LabelImpossible == <<"Calcul impossible">>
TwoDecimals(v) == DivRound(v, KmScale \div 100)
LabelOfCircle(circle_data, n) ==
    IF n = 1
    THEN <<"Intersection", circle_data[1], circle_data[2], "Surface", TwoDecimals(circle_data[4])>>
    ELSE <<"Centre", circle_data[1], circle_data[2], "Rayon", TwoDecimals(circle_data[3]),
           "Surface", TwoDecimals(circle_data[4]), n, "points">>

\* UpdateMapResult with the guard "len(visible) >= 1"
UpdateMapResult_one_station(engine, table, length_km, show) ==
    LET visible == VisibleStations(table)
        cleared(label) == [circle |-> None, points |-> <<>>, label |-> label, center |-> None]
    IN  IF Len(visible) >= 1 /\ show
        THEN LET intersections == EngineReturns(engine, visible, length_km).intersections
             IN  IF intersections # <<>>
                 THEN LET circle_data == EngineReturns(engine, visible, length_km).circle_data
                      IN  IF circle_data # None
                          THEN [circle |-> Some(<<circle_data[1][1], circle_data[1][2],
                                                  circle_data[1][3]>>),
                                points |-> intersections,
                                label  |-> LabelOfCircle(circle_data[1], Len(intersections)),
                                center |-> Some(<<circle_data[1][1], circle_data[1][2]>>)]
                          ELSE cleared(LabelImpossible)
                 ELSE cleared(LabelNoIntersection)
        ELSE cleared(LabelNone)

\* UpdateMapResult without the test "if intersections"
UpdateMapResult_no_empty_test(engine, table, length_km, show) ==
    LET visible == VisibleStations(table)
        cleared(label) == [circle |-> None, points |-> <<>>, label |-> label, center |-> None]
    IN  IF Len(visible) >= 2 /\ show
        THEN LET intersections == EngineReturns(engine, visible, length_km).intersections
                 circle_data == EngineReturns(engine, visible, length_km).circle_data
             IN  IF circle_data # None
                 THEN [circle |-> Some(<<circle_data[1][1], circle_data[1][2],
                                         circle_data[1][3]>>),
                       points |-> intersections,
                       label  |-> LabelOfCircle(circle_data[1], Len(intersections)),
                       center |-> Some(<<circle_data[1][1], circle_data[1][2]>>)]
                 ELSE cleared(LabelImpossible)
        ELSE cleared(LabelNone)

\* what _do_update_map, past its map_ready guard, leaves on the map
\* (intersectionCircle, intersectionPoints of the page), in intersection_label
\* and in last_intersection_center; "engine" holds what the engine returns
UpdateMapResult(engine, table, length_km, show) ==
    LET visible == VisibleStations(table)
        cleared(label) == [circle |-> None, points |-> <<>>, label |-> label, center |-> None]
    IN  IF Len(visible) >= 2 /\ show
        THEN LET intersections == EngineReturns(engine, visible, length_km).intersections
             IN  IF intersections # <<>>
                 THEN LET circle_data == EngineReturns(engine, visible, length_km).circle_data
                      IN  IF circle_data # None
                          THEN [circle |-> Some(<<circle_data[1][1], circle_data[1][2],
                                                  circle_data[1][3]>>),
                                points |-> intersections,
                                label  |-> LabelOfCircle(circle_data[1], Len(intersections)),
                                center |-> Some(<<circle_data[1][1], circle_data[1][2]>>)]
                          ELSE cleared(LabelImpossible)
                 ELSE cleared(LabelNoIntersection)
        ELSE cleared(LabelNone)

\* mission_data.get('intersection') of generate_pdf_report: None when the key is
\* not set (the 'mgrs' entry of the dictionary is left out)
ReportIntersection(engine, table, length_km) ==
    LET visible == VisibleStations(table)
    IN  IF Len(visible) >= 2
        THEN LET intersections == EngineReturns(engine, visible, length_km).intersections
             IN  IF intersections # <<>>
                 THEN LET circle_data == EngineReturns(engine, visible, length_km).circle_data
                      IN  IF circle_data # None
                          THEN Some([center_lat  |-> circle_data[1][1],
                                     center_lon  |-> circle_data[1][2],
                                     radius_km   |-> circle_data[1][3],
                                     surface_km2 |-> circle_data[1][4],
                                     point_count |-> Len(intersections)])
                          ELSE None
                 ELSE None
        ELSE None

(***************************************************************************)
(* State.                                                                  *)
(***************************************************************************)
VARIABLES
    stations_table,           \* StationsTableWidget.get_all_stations()
    azimuth_length_km,        \* MainWindow.azimuth_length_km
    show_intersection,        \* MainWindow.show_intersection
    map_ready,                \* MainWindow.map_ready
    intersectionCircle,       \* the page's intersectionCircle: None or (lat, lon, radius)
    intersectionPoints,       \* the page's intersectionPoints, as (lat, lon)
    intersection_label,       \* the text of MainWindow.intersection_label
    last_intersection_center, \* MainWindow.last_intersection_center
    mission_intersection,     \* mission_data.get('intersection') of the handler that runs
    fresh,                    \* "update", "report": the handler that has just computed
    sec_points,               \* the argument of a call of smallest_enclosing_circle
    sec_circle,               \* None, or the value the call has returned
    call_args,                \* the function a test calls and its arguments
    call_result,              \* the values the calls of the test have returned so far
    earlier,                  \* None, or an earlier computation: its arguments and results
    clock,                    \* datetime.now(), in seconds
    mission_timer,            \* the MissionTimer: its fields, buttons and QTimer
    history_dialog,           \* the HistoryDialog: its history and its table
    stations_widget,          \* the StationsTableWidget: its rows and station_rows
    tile_downloader,          \* the TileDownloader, its thread and its signals
    update_timer              \* MainWindow.update_timer and the runs it has started

appVars == <<stations_table, azimuth_length_km, show_intersection, map_ready,
             intersectionCircle, intersectionPoints, intersection_label,
             last_intersection_center, mission_intersection, fresh>>
callVars == <<sec_points, sec_circle, call_args, call_result>>
widgetVars == <<clock, mission_timer, history_dialog, stations_widget, tile_downloader,
                update_timer>>
vars == <<appVars, callVars, earlier, widgetVars>>

\* the widgets that a specification leaves out
WidgetsIdle ==
    /\ clock = 0
    /\ mission_timer = None /\ history_dialog = None /\ stations_widget = None
    /\ tile_downloader = None /\ update_timer = None

mapVars == <<intersectionCircle, intersectionPoints, intersection_label,
             last_intersection_center>>

\* MainWindow.__init__, then import_json of a mission file with the stations "table"
AppStart(table) ==
    /\ stations_table = table
    /\ azimuth_length_km = 100
    /\ show_intersection = TRUE
    /\ map_ready = FALSE
    /\ intersectionCircle = None
    /\ intersectionPoints = <<>>
    /\ intersection_label = LabelNone
    /\ last_intersection_center = None
    /\ mission_intersection = None
    /\ fresh = "none"

CallIdle ==
    /\ sec_points = <<>> /\ sec_circle = None
    /\ call_args = <<>> /\ call_result = <<>>

Init ==
    /\ \E table \in StationLists(MaxStations) : AppStart(table)
    /\ CallIdle
    /\ earlier = None
    /\ WidgetsIdle

\* UpdateMap with points that stay on the map when the new list is empty
UpdateMap_keeps_points(engine) ==
    LET r == UpdateMapResult(engine, stations_table, azimuth_length_km, show_intersection)
    IN  /\ intersectionCircle' = r.circle
        /\ intersectionPoints' = IF r.points = <<>> THEN intersectionPoints ELSE r.points
        /\ intersection_label' = r.label
        /\ last_intersection_center' = r.center

\* the body of _do_update_map after "if not self.map_ready: return"
UpdateMap(engine) ==
    LET r == UpdateMapResult(engine, stations_table, azimuth_length_km, show_intersection)
    IN  /\ intersectionCircle' = r.circle
        /\ intersectionPoints' = r.points
        /\ intersection_label' = r.label
        /\ last_intersection_center' = r.center

\* the visible check box of row i: stationDataChanged, _schedule_update
ToggleVisible(i) ==
    /\ i \in DOMAIN stations_table
    /\ stations_table' = [stations_table EXCEPT ![i].visible = ~@]
    /\ mission_intersection' = None
    /\ fresh' = "none"
    /\ UNCHANGED <<azimuth_length_km, show_intersection, map_ready, mapVars>>
    /\ UNCHANGED <<callVars, earlier, widgetVars>>

\* MainWindow._on_length_changed(value)
OnLengthChanged(value) ==
    /\ value # azimuth_length_km
    /\ azimuth_length_km' = value
    /\ mission_intersection' = None
    /\ fresh' = "none"
    /\ UNCHANGED <<stations_table, show_intersection, map_ready, mapVars>>
    /\ UNCHANGED <<callVars, earlier, widgetVars>>

\* MainWindow._on_settings_changed
OnSettingsChanged ==
    /\ show_intersection' = ~show_intersection
    /\ mission_intersection' = None
    /\ fresh' = "none"
    /\ UNCHANGED <<stations_table, azimuth_length_km, map_ready, mapVars>>
    /\ UNCHANGED <<callVars, earlier, widgetVars>>

\* MainWindow._reload_map: the page, with its circle and points, is loaded anew
ReloadMap ==
    /\ map_ready
    /\ map_ready' = FALSE
    /\ intersectionCircle' = None
    /\ intersectionPoints' = <<>>
    /\ mission_intersection' = None
    /\ fresh' = "none"
    /\ UNCHANGED <<stations_table, azimuth_length_km, show_intersection,
                   intersection_label, last_intersection_center>>
    /\ UNCHANGED <<callVars, earlier, widgetVars>>

\* the callback of MainWindow._check_map_ready when the page answers true
CheckMapReady(engine) ==
    /\ ~map_ready
    /\ map_ready' = TRUE
    /\ UpdateMap(engine)
    /\ mission_intersection' = None
    /\ fresh' = "update"
    /\ UNCHANGED <<stations_table, azimuth_length_km, show_intersection>>
    /\ UNCHANGED <<callVars, earlier, widgetVars>>

\* MainWindow._do_update_map, the timeout of update_timer
DoUpdateMap(engine) ==
    /\ IF map_ready
       THEN UpdateMap(engine) /\ fresh' = "update"
       ELSE UNCHANGED mapVars /\ fresh' = "none"
    /\ mission_intersection' = None
    /\ UNCHANGED <<stations_table, azimuth_length_km, show_intersection, map_ready>>
    /\ UNCHANGED <<callVars, earlier, widgetVars>>

\* MainWindow.generate_pdf_report, once the dialogs are accepted
GeneratePdfReport(engine) ==
    /\ mission_intersection' = ReportIntersection(engine, stations_table, azimuth_length_km)
    /\ fresh' = "report"
    /\ UNCHANGED <<stations_table, azimuth_length_km, show_intersection, map_ready, mapVars>>
    /\ UNCHANGED <<callVars, earlier, widgetVars>>

AppNext(engine) ==
    \/ \E i \in 1..MaxStations : ToggleVisible(i)
    \/ \E value \in LengthChoices : OnLengthChanged(value)
    \/ OnSettingsChanged
    \/ ReloadMap
    \/ CheckMapReady(engine)
    \/ DoUpdateMap(engine)
    \/ GeneratePdfReport(engine)

Next == \E engine \in {EngineMemo} : AppNext(engine)

Spec == Init /\ [][Next]_vars

(***************************************************************************)
(* Calls of smallest_enclosing_circle on lists of points.                  *)
(***************************************************************************)
\* the longest list of points of a call
MaxPoints == 3

\* the points of the calls, (lat, lon) in 1/DegScale degree
PointChoices ==
    { <<440000, 70000>>, <<435000, 75000>>, <<437000, 74000>>, <<437000, 76000>> }

PointLists(n) == UNION { [1..k -> PointChoices] : k \in 0..n }

\* smallest_enclosing_circle of every list of points of the model, computed once
CircleMemo ==
    { <<points, smallest_enclosing_circle(points)>> : points \in PointLists(MaxPoints) }

InitCircle ==
    /\ AppStart(<<>>)
    /\ sec_points \in PointLists(MaxPoints)
    /\ sec_circle = None
    /\ call_args = <<>> /\ call_result = <<>>
    /\ earlier = None
    /\ WidgetsIdle

\* the call smallest_enclosing_circle(sec_points) returns
CallCircle(circles) ==
    /\ sec_circle = None
    /\ sec_circle' = Some((CHOOSE e \in circles : e[1] = sec_points)[2])
    /\ UNCHANGED <<appVars, sec_points, call_args, call_result, earlier, widgetVars>>

NextCircle == \E circles \in {CircleMemo} : CallCircle(circles)

SpecCircle == InitCircle /\ [][NextCircle]_vars

(***************************************************************************)
(* Computations of the application that are repeated: "earlier" keeps the  *)
(* arguments and the results of one computation of _do_update_map.         *)
(***************************************************************************)
\* the mission files of the repeated computations: station A and one other
RepeatTables ==
    { t \in StationLists(MaxStations) : Len(t) = 2 /\ Bearing(t[1]) = StationA }

\* what _do_update_map reads
Inputs == <<stations_table, azimuth_length_km, show_intersection>>

InitRepeat ==
    /\ \E table \in RepeatTables : AppStart(table)
    /\ CallIdle
    /\ earlier = None
    /\ WidgetsIdle

\* the computation that _do_update_map has just made is kept
Note ==
    /\ fresh = "update"
    /\ earlier = None
    /\ earlier' = Some([inputs |-> Inputs, outputs |-> mapVars, between |-> FALSE])
    /\ UNCHANGED <<appVars, callVars, widgetVars>>

\* _do_update_map has just made a computation on other arguments than the one kept
NoteOther ==
    /\ fresh = "update"
    /\ earlier # None
    /\ earlier[1].inputs # Inputs
    /\ ~earlier[1].between
    /\ earlier' = Some([earlier[1] EXCEPT !.between = TRUE])
    /\ UNCHANGED <<appVars, callVars, widgetVars>>

NextRepeat ==
    \/ \E engine \in {EngineMemo} : AppNext(engine)
    \/ Note
    \/ NoteOther

SpecRepeat == InitRepeat /\ [][NextRepeat]_vars

(***************************************************************************)
(* The geometry of a pair of bearings, stated apart from the loops of      *)
(* calculate_all_intersections.                                            *)
(***************************************************************************)
\* the rows of the table whose check box is ticked, in the order of the table
Ticked(table) ==
    LET keep[k \in 0..Len(table)] ==
            IF k = 0 THEN <<>>
            ELSE IF table[k].visible THEN Append(keep[k - 1], table[k]) ELSE keep[k - 1]
    IN  keep[Len(table)]

\* the table with every check box ticked
AllTicked(table) == [i \in DOMAIN table |-> [table[i] EXCEPT !.visible = TRUE]]

\* the point (int_lon, int_lat) is ahead of station s: the vector from s to the
\* point and the azimuth of s make an angle under 90 degrees, that is a positive
\* scalar product
Ahead(s, int_lon, int_lat) ==
    MulDiv(int_lon - s.lon, Sin(radians(s.azimuth)), TrigScale)
    + MulDiv(int_lat - s.lat, Cos(radians(s.azimuth)), TrigScale) > 0

\* the candidate crossing of the bearing lines of s1 and s2, as (lat, lon), the
\* side of each station it is on, the two segments handed to line_intersection
\* and dir1_to_inter, dir2_to_inter, diff1, diff2 of calculate_all_intersections;
\* no candidate when the lines are parallel
CrossingFacts(s1, s2, length_km) ==
    LET judged[c \in Seq(Int \X Int), inter \in Seq(Int \X Int)] ==
            IF inter = None
            THEN [chords |-> c, crossing |-> None, ahead1 |-> FALSE, ahead2 |-> FALSE,
                  dir1 |-> 0, dir2 |-> 0, diff1 |-> 0, diff2 |-> 0]
            ELSE [chords   |-> c,
                  crossing |-> Some(<<inter[1][2], inter[1][1]>>),
                  ahead1   |-> Ahead(s1, inter[1][1], inter[1][2]),
                  ahead2   |-> Ahead(s2, inter[1][1], inter[1][2]),
                  dir1     |-> Atan2(inter[1][1] - s1.lon, inter[1][2] - s1.lat),
                  dir2     |-> Atan2(inter[1][1] - s2.lon, inter[1][2] - s2.lat),
                  diff1    |-> NormalisedDiff(s1, inter[1][1], inter[1][2]),
                  diff2    |-> NormalisedDiff(s2, inter[1][1], inter[1][2])]
        crossed[c \in Seq(Int \X Int)] == judged[c, line_intersection(c[1], c[2], c[3], c[4])]
    IN  crossed[Chords(s1, s2, length_km)]

\* CrossingFacts of every pair of stations of the model, computed once
FactsMemo ==
    { <<k, CrossingFacts(k[1], k[2], k[3])>> : k \in PairKeys }

Facts(s1, s2, length_km) ==
    (CHOOSE e \in FactsMemo : e[1] = <<Bearing(s1), Bearing(s2), length_km>>)[2]

\* a valid latitude and longitude
InRange(pt) ==
    /\ -90 * DegScale <= pt[1] /\ pt[1] <= 90 * DegScale
    /\ -180 * DegScale <= pt[2] /\ pt[2] <= 180 * DegScale

\* the points the pair (s1, s2) is to contribute: its candidate when it is ahead
\* of both stations
Expected(s1, s2, length_km) ==
    LET f == Facts(s1, s2, length_km)
    IN  IF f.crossing # None /\ f.ahead1 /\ f.ahead2 /\ InRange(f.crossing[1])
        THEN <<f.crossing[1]>>
        ELSE <<>>

\* the pair has no candidate: parallel or degenerate lines
Degenerate(s1, s2, length_km) == Facts(s1, s2, length_km).crossing = None

\* the candidate of the pair is ahead of one station and not of the other
BehindOne(s1, s2, length_km) ==
    LET f == Facts(s1, s2, length_km)
    IN  f.crossing # None /\ (f.ahead1 # f.ahead2)

\* the contributions of the pairs given, one after the other
ExpectedOver(pairs, visible, length_km) ==
    LET list[k \in 0..Len(pairs)] ==
            IF k = 0 THEN <<>>
            ELSE list[k - 1]
                 \o Expected(visible[pairs[k][1]], visible[pairs[k][2]], length_km)
    IN  list[Len(pairs)]

\* the index pairs of a list of n stations, first index below the second, in
\* the order of the first index then of the second
PairsOf(n) ==
    LET row[i \in 1..n, j \in 1..(n + 1)] ==
            IF j > n THEN <<>> ELSE <<<<i, j>>>> \o row[i, j + 1]
        rows[i \in 1..(n + 1)] == IF i > n THEN <<>> ELSE row[i, i + 1] \o rows[i + 1]
    IN  rows[1]

\* _do_update_map has just called the engine
EngineRan ==
    fresh = "update" /\ show_intersection /\ Len(Ticked(stations_table)) >= 2

\* what _do_update_map has left, as a record
MapNow ==
    [circle |-> intersectionCircle, points |-> intersectionPoints,
     label  |-> intersection_label, center |-> last_intersection_center]

(***************************************************************************)
(* Properties.                                                             *)
(***************************************************************************)
\* C1: with fewer than two visible stations there is no fix: _do_update_map
\* leaves no circle, no point and no centre and the label "Zone
\* d'intersection: -" (no intersection was computed), and the report of
\* generate_pdf_report has no 'intersection' entry.
C1_FewerThanTwoVisible ==
    Len(Ticked(stations_table)) < 2 =>
        /\ fresh = "update" => /\ intersectionCircle = None
                               /\ intersectionPoints = <<>>
                               /\ last_intersection_center = None
                               /\ intersection_label = LabelNone
        /\ fresh = "report" => mission_intersection = None

\* _do_update_map has run on a table of three stations of which one is visible
C1_OneVisibleOfThree ==
    /\ fresh = "update"
    /\ show_intersection
    /\ Len(stations_table) = 3
    /\ Len(Ticked(stations_table)) = 1

\* C2: with exactly two visible stations whose bearing lines cross ahead of
\* both, the fix has exactly one source point, its centre is that point and its
\* radius is 0.5 km, on the map and in the report.
C2_TwoStationsOnePoint ==
    LET visible == Ticked(stations_table)
        points  == Expected(visible[1], visible[2], azimuth_length_km)
    IN  Len(visible) = 2 /\ points # <<>> =>
            /\ fresh = "update" /\ show_intersection =>
                   /\ intersectionPoints = points
                   /\ intersectionCircle = Some(<<points[1][1], points[1][2], KmScale \div 2>>)
                   /\ last_intersection_center = Some(points[1])
            /\ fresh = "report" =>
                   /\ mission_intersection # None
                   /\ mission_intersection[1].point_count = 1
                   /\ mission_intersection[1].center_lat = points[1][1]
                   /\ mission_intersection[1].center_lon = points[1][2]
                   /\ mission_intersection[1].radius_km = KmScale \div 2

\* _do_update_map has run on two visible stations whose lines cross ahead of both
C2_TwoCrossingStations ==
    LET visible == Ticked(stations_table)
    IN  /\ EngineRan
        /\ Len(visible) = 2
        /\ Expected(visible[1], visible[2], azimuth_length_km) # <<>>

\* C3: the list of points holds, pair after pair, the candidate crossing of the
\* pair when and only when it is ahead of the first station and ahead of the
\* second (deviation from the azimuth strictly under 90 degrees for both); a
\* candidate behind either station contributes no point.
C3_AheadOfBothStations ==
    LET visible == Ticked(stations_table)
    IN  EngineRan =>
            intersectionPoints
                = ExpectedOver(PairsOf(Len(visible)), visible, azimuth_length_km)

\* the engine has run on a list with a pair whose candidate is ahead of one
\* station only, and with a pair that has contributed a point
C3_OnePairBehindOneStation ==
    LET visible == Ticked(stations_table)
        pairs   == PairsOf(Len(visible))
    IN  /\ EngineRan
        /\ intersectionPoints # <<>>
        /\ \E k \in DOMAIN pairs :
               BehindOne(visible[pairs[k][1]], visible[pairs[k][2]], azimuth_length_km)

\* stations A (43.70000, 7.25000, bearing 90) and B (43.80000, 7.25000, bearing
\* 180) are the visible stations, the length is 100 km, _do_update_map has run
ScenarioAB ==
    /\ fresh = "update"
    /\ show_intersection
    /\ azimuth_length_km = 100
    /\ BearingsOf(Ticked(stations_table)) = <<StationA, StationB>>

\* C4: in the scenario of stations A and B at 100 km the intersection of the two
\* lines is a point, not None; it is the position of A itself (43.70000,
\* 7.25000), which is not ahead of A, so that the forward test rejects it and
\* the list of points is empty: the label reads "Pas d'intersection".
C4_CrossingAtStationA ==
    ScenarioAB =>
        /\ Facts(StationA, StationB, 100).crossing = Some(<<StationA.lat, StationA.lon>>)
        /\ ~Facts(StationA, StationB, 100).ahead1
        /\ intersectionPoints = <<>>
        /\ intersection_label = LabelNoIntersection

\* the scenario of stations A and B has been computed, B before A as well
C4_ScenarioComputed ==
    /\ ScenarioAB
    /\ Facts(StationB, StationA, 100).crossing # None
    /\ intersectionCircle = None

\* C4 as the specification states it: the scenario gives a point east of A and
\* south of B, near (43.70000, 7.3xxxx), accepted by the forward test.
C4_PointEastOfA ==
    ScenarioAB =>
        /\ Len(intersectionPoints) = 1
        /\ intersectionPoints[1][2] > StationA.lon
        /\ intersectionPoints[1][1] < StationB.lat

\* C5 as the specification states it: the outcome of a pair (no point, or the
\* point kept) is the same at every projection distance.
C5_SameAtEveryLength ==
    LET visible == Ticked(stations_table)
    IN  EngineRan /\ Len(visible) = 2 =>
            \A length_km \in LengthChoices :
                EngineReturns(EngineMemo, visible, length_km).intersections
                    = intersectionPoints

\* C6 as the specification states it: every point of a non-empty list handed
\* to smallest_enclosing_circle is, by distance_km, within the returned radius
\* of the returned centre, up to a small epsilon (here 0.02 km).
C6_EveryPointWithinRadius ==
    sec_circle # None /\ sec_points # <<>> =>
        \A k \in DOMAIN sec_points :
            distance_km(sec_circle[1][1], sec_circle[1][2],
                        sec_points[k][1], sec_points[k][2])
                <= sec_circle[1][3] + KmScale \div 50

\* C7: the invisible stations never influence the result: what _do_update_map
\* leaves and what generate_pdf_report reports are what they are for the
\* table with the invisible stations removed.
C7_InvisibleStationsIgnored ==
    /\ fresh = "update" =>
           MapNow = UpdateMapResult(EngineMemo, Ticked(stations_table),
                                    azimuth_length_km, show_intersection)
    /\ fresh = "report" =>
           mission_intersection
               = ReportIntersection(EngineMemo, Ticked(stations_table), azimuth_length_km)

\* _do_update_map has found a fix while a station is invisible that would
\* change the result if it were visible
C7_HiddenStationWouldCount ==
    /\ EngineRan
    /\ intersectionCircle # None
    /\ Len(Ticked(stations_table)) < Len(stations_table)
    /\ MapNow # UpdateMapResult(EngineMemo, AllTicked(stations_table),
                                azimuth_length_km, show_intersection)

\* C8: with two or more visible stations of which no pair has a crossing ahead
\* of both its stations, there is no fix and no error: _do_update_map leaves no
\* circle, no point and no centre (no circle at (0, 0) of radius 0) and the
\* label "Pas d'intersection"; the report has no 'intersection' entry.
C8_NoValidIntersection ==
    LET visible == Ticked(stations_table)
    IN  /\ Len(visible) >= 2
        /\ ExpectedOver(PairsOf(Len(visible)), visible, azimuth_length_km) = <<>>
        =>  /\ fresh = "update" /\ show_intersection =>
                   /\ intersectionCircle = None
                   /\ intersectionPoints = <<>>
                   /\ last_intersection_center = None
                   /\ intersection_label = LabelNoIntersection
            /\ fresh = "report" => mission_intersection = None

\* the engine has run on three visible stations: no pair has a valid crossing,
\* and a pair has a candidate
C8_ThreeStationsNoCrossing ==
    LET visible == Ticked(stations_table)
        pairs   == PairsOf(Len(visible))
    IN  /\ EngineRan
        /\ Len(visible) = 3
        /\ ExpectedOver(pairs, visible, azimuth_length_km) = <<>>
        /\ \E k \in DOMAIN pairs :
               ~Degenerate(visible[pairs[k][1]], visible[pairs[k][2]], azimuth_length_km)

\* the pairs of the list that have a candidate, in the order of the loops
CrossingPairs(visible, length_km) ==
    SelectSeq(PairsOf(Len(visible)),
              LAMBDA p : ~Degenerate(visible[p[1]], visible[p[2]], length_km))

\* C9: a parallel or degenerate pair contributes nothing and stops nothing:
\* when the list of visible stations has such a pair, the list of points is, in
\* order, the valid crossings of the other pairs.
C9_DegeneratePairSkipped ==
    LET visible == Ticked(stations_table)
        pairs   == PairsOf(Len(visible))
    IN  /\ EngineRan
        /\ \E k \in DOMAIN pairs :
               Degenerate(visible[pairs[k][1]], visible[pairs[k][2]], azimuth_length_km)
        =>  intersectionPoints
                = ExpectedOver(CrossingPairs(visible, azimuth_length_km),
                               visible, azimuth_length_km)

\* the engine has run on a list of three stations whose first pair is degenerate
\* and of which a later pair has contributed a point
C9_DegenerateFirstPair ==
    LET visible == Ticked(stations_table)
    IN  /\ EngineRan
        /\ Len(visible) = 3
        /\ Degenerate(visible[1], visible[2], azimuth_length_km)
        /\ intersectionPoints # <<>>

CircleOf(points) == (CHOOSE e \in CircleMemo : e[1] = points)[2]

\* q holds the points of p, each as many times, in some order
IsPermutation(p, q) ==
    /\ Len(p) = Len(q)
    /\ \A pt \in PointChoices :
           Cardinality({i \in DOMAIN p : p[i] = pt}) = Cardinality({i \in DOMAIN q : q[i] = pt})

\* two circles agree: centres within 0.001 degree, radii within 0.02 km
SameCircle(c1, c2) ==
    /\ Abs(c1[1] - c2[1]) <= DegScale \div 1000
    /\ Abs(c1[2] - c2[2]) <= DegScale \div 1000
    /\ Abs(c1[3] - c2[3]) <= KmScale \div 50

\* C11 as the specification states it: for a list of three or more points,
\* smallest_enclosing_circle returns the same centre and the same radius for
\* every order of the points.
C11_SameCircleInEveryOrder ==
    sec_circle # None /\ Len(sec_points) >= 3 =>
        \A q \in PointLists(MaxPoints) :
            IsPermutation(sec_points, q) => SameCircle(CircleOf(q), sec_circle[1])

(***************************************************************************)
(* The application on stations that carry a signal level.                  *)
(***************************************************************************)
\* two of SIGNAL_LEVELS: no reception, and the level of a new row
SignalChoices == {"S0", "S5"}

\* the mission files with two stations, all visible, all at level S5
SignalTables ==
    { [i \in DOMAIN f |-> [lat |-> f[i].lat, lon |-> f[i].lon, azimuth |-> f[i].azimuth,
                           visible |-> TRUE, signal |-> "S5"]] :
          f \in { g \in BearingLists(MaxStations) : Len(g) = 2 } }

InitSignal ==
    /\ \E table \in SignalTables : AppStart(table)
    /\ CallIdle
    /\ earlier = None
    /\ WidgetsIdle

\* the signal combo box of row i: _emit_change, stationDataChanged, _schedule_update
SetSignal(i, level) ==
    /\ i \in DOMAIN stations_table
    /\ stations_table[i].signal # level
    /\ stations_table' = [stations_table EXCEPT ![i].signal = level]
    /\ mission_intersection' = None
    /\ fresh' = "none"
    /\ UNCHANGED <<azimuth_length_km, show_intersection, map_ready, mapVars>>
    /\ UNCHANGED <<callVars, earlier, widgetVars>>

NextSignal ==
    \/ \E engine \in {EngineMemo} : AppNext(engine)
    \/ \E i \in 1..MaxStations : \E level \in SignalChoices : SetSignal(i, level)

SpecSignal == InitSignal /\ [][NextSignal]_vars

\* the table without the stations whose signal level is S0
WithoutS0(table) ==
    LET keep[k \in 0..Len(table)] ==
            IF k = 0 THEN <<>>
            ELSE IF table[k].signal # "S0" THEN Append(keep[k - 1], table[k]) ELSE keep[k - 1]
    IN  keep[Len(table)]

\* C12 as the specification states it: a station at signal level S0 that
\* reaches the engine is ignored: what _do_update_map leaves and what
\* generate_pdf_report reports are what they are for the table without the
\* stations at S0.
C12_S0StationsIgnored ==
    /\ fresh = "update" =>
           MapNow = UpdateMapResult(EngineMemo, WithoutS0(stations_table),
                                    azimuth_length_km, show_intersection)
    /\ fresh = "report" =>
           mission_intersection
               = ReportIntersection(EngineMemo, WithoutS0(stations_table), azimuth_length_km)

(***************************************************************************)
(* The conversions between decimal degrees and degrees, minutes, seconds:  *)
(* src/main.py, lines 178 to 195.  A decimal degree is kept in 1/MicroDeg  *)
(* degree (the 6 decimals of "round(dd, 6)"), seconds in 1/100 second (the *)
(* 2 decimals of "round(..., 2)").                                         *)
(***************************************************************************)
MicroDeg == 10^6

\* dms_to_dd(deg, minutes, seconds, direction) -> dd
\* (deg + minutes/60 + seconds/3600 degree is 25/9 micro-degree per 1/100 second)
dms_to_dd(deg, minutes, seconds, direction) ==
    LET dd == MulDiv(deg * 360000 + minutes * 6000 + seconds, 25, 9)
    IN  IF direction \in {"W", "S"} THEN -dd ELSE dd

\* dd_to_dms with seconds cut to whole seconds
dd_to_dms_whole_seconds(dd, coord_type) ==
    LET is_positive == dd >= 0
        fraction    == Abs(dd) % MicroDeg
        deg         == Abs(dd) \div MicroDeg
        minutes     == (fraction * 60) \div MicroDeg
        seconds     == 100 * (((fraction * 60 - minutes * MicroDeg) * 6) \div 100000)
        direction   == IF coord_type = "lat"
                       THEN (IF is_positive THEN "N" ELSE "S")
                       ELSE (IF is_positive THEN "E" ELSE "W")
    IN  <<deg, minutes, seconds, direction>>

\* dd_to_dms(dd, coord_type) -> (deg, minutes, seconds, direction)
dd_to_dms(dd, coord_type) ==
    LET is_positive == dd >= 0
        fraction    == Abs(dd) % MicroDeg
        deg         == Abs(dd) \div MicroDeg
        minutes     == (fraction * 60) \div MicroDeg
        seconds     == DivRound((fraction * 60 - minutes * MicroDeg) * 6, 1000)
        direction   == IF coord_type = "lat"
                       THEN (IF is_positive THEN "N" ELSE "S")
                       ELSE (IF is_positive THEN "E" ELSE "W")
    IN  <<deg, minutes, seconds, direction>>

(***************************************************************************)
(* UTM and MGRS: src/main.py, lines 204 to 281.  Eastings and northings    *)
(* are in metres, the squared eccentricities in 1/Scale9; an easting or    *)
(* northing is within 30 m of the float result, the zone, the band and the *)
(* letters of the 100 km square are those of the float result.  The        *)
(* operands stay within 32 bits for latitudes from -80.5 to 80.5 degrees.  *)
(***************************************************************************)
Scale9 == 10^9

\* the WGS84 ellipsoid: a (metres), k0 (in 1/10^4), e2 = f*(2 - f) and
\* ep2 = e2/(1 - e2) (in 1/Scale9)
EquatorialRadius == 6378137
k0 == 9996
e2 == 6694380
ep2 == 6739497

\* Python's int(x / k): the quotient cut towards zero
IntDiv(x, k) == Sign(x) * (Abs(x) \div k)

\* UtmZone without the overrides of Norway and Svalbard
UtmZone_no_overrides(lat, lon) == IntDiv(lon + 180 * DegScale, 6 * DegScale) + 1

\* the zone of lat_lon_to_utm
UtmZone(lat, lon) ==
    IF 56 * DegScale <= lat /\ lat < 64 * DegScale /\ 3 * DegScale <= lon /\ lon < 12 * DegScale
    THEN 32
    ELSE IF 72 * DegScale <= lat /\ lat < 84 * DegScale /\ 0 <= lon /\ lon < 9 * DegScale THEN 31
    ELSE IF 72 * DegScale <= lat /\ lat < 84 * DegScale /\ 9 * DegScale <= lon /\ lon < 21 * DegScale THEN 33
    ELSE IF 72 * DegScale <= lat /\ lat < 84 * DegScale /\ 21 * DegScale <= lon /\ lon < 33 * DegScale THEN 35
    ELSE IF 72 * DegScale <= lat /\ lat < 84 * DegScale /\ 33 * DegScale <= lon /\ lon < 42 * DegScale THEN 37
    ELSE IntDiv(lon + 180 * DegScale, 6 * DegScale) + 1

\* UtmLetter with a table of 20 letters, X once: no letter beyond its end
UtmLetter_twenty_letters(lat) ==
    LET letters == <<"C", "D", "E", "F", "G", "H", "J", "K", "L", "M", "N",
                     "P", "Q", "R", "S", "T", "U", "V", "W", "X">>
    IN  IF -80 * DegScale <= lat /\ lat < 80 * DegScale
        THEN letters[IntDiv(lat + 80 * DegScale, 8 * DegScale) + 1]
        ELSE "Z"

\* the latitude band of lat_lon_to_utm
UtmLetter(lat) ==
    LET letters == <<"C", "D", "E", "F", "G", "H", "J", "K", "L", "M", "N",
                     "P", "Q", "R", "S", "T", "U", "V", "W", "X", "X">>
    IN  IF -80 * DegScale <= lat /\ lat <= 84 * DegScale
        THEN letters[IntDiv(lat + 80 * DegScale, 8 * DegScale) + 1]
        ELSE "Z"

\* N = a / sqrt(1 - e2 * sin(lat_rad)**2); sqrt(1 - y) by its series to y^3
PrimeVertical(sinlat) ==
    LET root[y \in Nat, y2 \in Nat] ==
            Scale9 - y \div 2 - DivRound(y2, 8) - DivRound(MulDiv(y2, y, Scale9), 16)
        radius[y \in Nat] == MulDiv(EquatorialRadius, Scale9, root[y, MulDiv(y, y, Scale9)])
    IN  radius[MulDiv(e2, MulDiv(sinlat, sinlat, TrigScale), TrigScale)]

\* M, the length of the meridian from the equator to lat_rad
MeridianArc(lat_rad) ==
    LET arc[sq \in Nat, cube \in Nat] ==
            MulDiv(EquatorialRadius,
                   MulDiv(lat_rad,
                          Scale9 - e2 \div 4 - (3 * sq) \div 64 - (5 * cube) \div 256,
                          Scale9)
                   - MulDiv((3 * e2) \div 8 + (3 * sq) \div 32 + (45 * cube) \div 1024,
                            Sin(2 * lat_rad), Scale9)
                   + MulDiv((15 * sq) \div 256 + (45 * cube) \div 1024,
                            Sin(4 * lat_rad), Scale9)
                   - MulDiv((35 * cube) \div 3072, Sin(6 * lat_rad), Scale9),
                   TrigScale)
        powers[sq \in Nat] == arc[sq, MulDiv(sq, e2, Scale9)]
    IN  powers[MulDiv(e2, e2, Scale9)]

\* lat_lon_to_utm(lat, lon) -> (zone, letter, easting, northing)
lat_lon_to_utm(lat, lon) ==
    LET scaled[N \in Int, series \in Int] == MulDiv(MulDiv(N, series, TrigScale), k0, 10^4)
        result[zone \in Int, N \in Int, M \in Int, tanlat \in Int, T \in Int, T2 \in Int,
               C \in Int, A \in Int, A2 \in Int, A3 \in Int, A4 \in Int] ==
            <<zone, UtmLetter(lat),
              scaled[N, A + DivRound(MulDiv(TrigScale - T + C, A3, TrigScale), 6)
                          + DivRound(MulDiv(5 * TrigScale - 18 * T + T2 + 72 * C
                                            - 58 * DivRound(ep2, 1000),
                                            MulDiv(A3, A2, TrigScale), TrigScale), 120)]
              + 500000,
              MulDiv(M, k0, 10^4)
              + scaled[N, MulDiv(tanlat,
                                 A2 \div 2
                                 + DivRound(MulDiv(5 * TrigScale - T + 9 * C
                                                   + 4 * MulDiv(C, C, TrigScale),
                                                   A4, TrigScale), 24)
                                 + DivRound(MulDiv(61 * TrigScale - 58 * T + T2 + 600 * C
                                                   - 330 * DivRound(ep2, 1000),
                                                   MulDiv(A4, A2, TrigScale), TrigScale), 720),
                                 TrigScale)]
              + (IF lat < 0 THEN 10000000 ELSE 0)>>
        powers[zone \in Int, N \in Int, M \in Int, tanlat \in Int, T \in Int,
               C \in Int, A \in Int, A2 \in Int] ==
            result[zone, N, M, tanlat, T, MulDiv(T, T, TrigScale), C, A, A2,
                   MulDiv(A2, A, TrigScale), MulDiv(A2, A2, TrigScale)]
        terms[zone \in Int, lat_rad \in Int, sinlat \in Int, coslat \in Int,
              tanlat \in Int, A \in Int] ==
            powers[zone, PrimeVertical(sinlat), MeridianArc(lat_rad), tanlat,
                   MulDiv(tanlat, tanlat, TrigScale),
                   MulDiv(ep2, MulDiv(coslat, coslat, TrigScale), Scale9),
                   A, MulDiv(A, A, TrigScale)]
        angles[zone \in Int, lat_rad \in Int, sinlat \in Int, coslat \in Int] ==
            terms[zone, lat_rad, sinlat, coslat, MulDiv(sinlat, TrigScale, coslat),
                  MulDiv(radians(lon) - radians(((zone - 1) * 6 - 180 + 3) * DegScale),
                         coslat, TrigScale)]
        start[zone \in Int, lat_rad \in Int] == angles[zone, lat_rad, Sin(lat_rad), Cos(lat_rad)]
    IN  start[UtmZone(lat, lon), radians(lat)]

\* the column index of lat_lon_to_mgrs before it is brought into 0..7
ColumnIndex(easting) == IntDiv(easting, 100000) - 1

\* lat_lon_to_mgrs(lat, lon) -> the zone, the band, the two letters of the
\* 100 km square, and the easting and northing within the square
lat_lon_to_mgrs(lat, lon) ==
    LET col_letters == << <<"A", "B", "C", "D", "E", "F", "G", "H">>,
                          <<"J", "K", "L", "M", "N", "P", "Q", "R">>,
                          <<"S", "T", "U", "V", "W", "X", "Y", "Z">>,
                          <<"A", "B", "C", "D", "E", "F", "G", "H">>,
                          <<"J", "K", "L", "M", "N", "P", "Q", "R">>,
                          <<"S", "T", "U", "V", "W", "X", "Y", "Z">> >>
        row_letters == <<"A", "B", "C", "D", "E", "F", "G", "H", "J", "K",
                         "L", "M", "N", "P", "Q", "R", "S", "T", "U", "V">>
        grid[zone \in Int, letter \in STRING, easting \in Int, northing \in Int,
             set_number \in Nat, col_idx \in Int] ==
            <<zone, letter,
              col_letters[set_number][(IF col_idx < 0 THEN 0
                                       ELSE IF col_idx > 7 THEN 7 ELSE col_idx) + 1],
              row_letters[(IntDiv(northing, 100000) % 20) + 1],
              easting % 100000, northing % 100000>>
        square[zone \in Int, letter \in STRING, easting \in Int, northing \in Int] ==
            grid[zone, letter, easting, northing,
                 IF zone % 6 = 0 THEN 6 ELSE zone % 6, ColumnIndex(easting)]
        utm == lat_lon_to_utm(lat, lon)
    IN  square[utm[1], utm[2], utm[3], utm[4]]

\* the calls of lat_lon_to_mgrs: the equator and the middle latitudes, the
\* special zones of Norway and Svalbard, a latitude below the lettered bands,
\* the antimeridian and a longitude beyond it
MgrsCalls ==
    { <<"lat_lon_to_mgrs", lat, lon>> :
          lat \in {-805000, -800000, -100000, 0, 437000, 600000, 750000, 800000},
          lon \in {-1830000, -1800000, -1770000, -30000, 0, 50000, 72500, 100000,
                   250000, 400000, 1740000, 1795000, 1800000} }

\* what the calls of lat_lon_to_utm and lat_lon_to_mgrs return
MgrsMemo ==
    { <<c, lat_lon_to_utm(c[2], c[3]), lat_lon_to_mgrs(c[2], c[3])>> : c \in MgrsCalls }

\* the decimal degrees of the calls of dd_to_dms: whole degrees and fractions
\* of a degree, north and south of the equator, east and west of Greenwich
DdChoices(limit) ==
    { sign * (whole * MicroDeg + fraction) :
          sign \in {-1, 1}, whole \in {0, 7, 43, 89, 90, 179, 180},
          fraction \in {0, 1, 4, 16666, 16667, 123456, 250000, 500000, 999861, 999999} }
    \cap (-(limit * MicroDeg))..(limit * MicroDeg)

DdToDmsCalls ==
    { <<"dd_to_dms", dd, "lat">> : dd \in DdChoices(90) }
    \cup { <<"dd_to_dms", dd, "lon">> : dd \in DdChoices(180) }

\* the calls of dms_to_dd: components in and out of their ranges
DmsToDdCalls ==
    { <<"dms_to_dd", deg, minutes, seconds, direction>> :
          deg \in {-1, 0, 43}, minutes \in {-1, 0, 59, 60},
          seconds \in {-1, 0, 5999, 6000}, direction \in {"N", "S", "E", "W"} }

InitConvert ==
    /\ AppStart(<<>>)
    /\ sec_points = <<>> /\ sec_circle = None
    /\ call_args \in DdToDmsCalls \cup DmsToDdCalls \cup MgrsCalls
    /\ call_result = <<>>
    /\ earlier = None
    /\ WidgetsIdle

\* the call dd_to_dms(dd, coord_type) returns
CallDdToDms ==
    /\ call_args[1] = "dd_to_dms"
    /\ call_result = <<>>
    /\ call_result' = <<dd_to_dms(call_args[2], call_args[3])>>
    /\ UNCHANGED <<appVars, sec_points, sec_circle, call_args, earlier, widgetVars>>

\* the call dms_to_dd(deg, minutes, seconds, direction) returns: a number
CallDmsToDd ==
    /\ call_args[1] = "dms_to_dd"
    /\ call_result = <<>>
    /\ call_result' = << <<"value", dms_to_dd(call_args[2], call_args[3],
                                                call_args[4], call_args[5])>> >>
    /\ UNCHANGED <<appVars, sec_points, sec_circle, call_args, earlier, widgetVars>>

\* dms_to_dd is called on the four components that dd_to_dms has returned
CallDmsToDdBack ==
    /\ call_args[1] = "dd_to_dms"
    /\ Len(call_result) = 1
    /\ call_result' = Append(call_result,
                             <<"value", dms_to_dd(call_result[1][1], call_result[1][2],
                                                  call_result[1][3], call_result[1][4])>>)
    /\ UNCHANGED <<appVars, sec_points, sec_circle, call_args, earlier, widgetVars>>

\* the call lat_lon_to_mgrs(lat, lon) returns: a grid reference
CallLatLonToMgrs(grids) ==
    /\ call_args[1] = "lat_lon_to_mgrs"
    /\ call_result = <<>>
    /\ call_result' = << <<"value", (CHOOSE g \in grids : g[1] = call_args)[3]>> >>
    /\ UNCHANGED <<appVars, sec_points, sec_circle, call_args, earlier, widgetVars>>

NextConvert ==
    \/ CallDdToDms
    \/ CallDmsToDd
    \/ CallDmsToDdBack
    \/ \E grids \in {MgrsMemo} : CallLatLonToMgrs(grids)

SpecConvert == InitConvert /\ [][NextConvert]_vars

\* C13 as the specification states it: dms_to_dd fails with InvalidInput, and
\* returns no number, when deg is negative, minutes is outside [0, 59] or
\* seconds is outside [0, 60) (seconds in 1/100 second).
C13_InvalidInputRejected ==
    /\ call_args # <<>>
    /\ call_args[1] = "dms_to_dd"
    /\ call_result # <<>>
    /\ \/ call_args[2] < 0
       \/ call_args[3] \notin 0..59
       \/ call_args[4] < 0 \/ call_args[4] >= 6000
    =>  call_result[1][1] = "InvalidInput"

\* C14: dms_to_dd of the four components that dd_to_dms(dd, axis) returns is
\* within 1e-4 degree of dd and on the same side of zero, for every dd in the
\* range of its axis.
C14_RoundTrip ==
    call_args # <<>> /\ call_args[1] = "dd_to_dms" /\ Len(call_result) = 2 =>
        /\ Abs(call_result[2][2] - call_args[2]) <= MicroDeg \div 10000
        /\ call_args[2] >= 0 => call_result[2][2] >= 0
        /\ call_args[2] < 0 => call_result[2][2] <= 0
        /\ call_args[2] >= 0 <=> call_result[1][4] \in {"N", "E"}

\* a negative value whose seconds round up to 60.00 has made the round trip
C14_NegativeWithSixtySeconds ==
    /\ call_args # <<>>
    /\ call_args[1] = "dd_to_dms"
    /\ Len(call_result) = 2
    /\ call_args[2] < 0
    /\ call_result[1][3] = 6000

\* C15 as the specification states it: lat_lon_to_mgrs fails with InvalidInput,
\* and clamps nothing, when its input leads to a zone outside 1..60 or to a
\* column index of the 100 km square outside 0..7.
C15_OutOfRangeIndexRejected ==
    /\ call_args # <<>>
    /\ call_args[1] = "lat_lon_to_mgrs"
    /\ call_result # <<>>
    /\ LET utm == (CHOOSE g \in MgrsMemo : g[1] = call_args)[2]
       IN  utm[1] \notin 1..60 \/ ColumnIndex(utm[3]) \notin 0..7
    =>  call_result[1][1] = "InvalidInput"

(***************************************************************************)
(* calculate_all_intersections called with two stations.                   *)
(***************************************************************************)
\* what the calls of PairCalls return
PairCallMemo == { <<c, calculate_all_intersections(c[2], c[3])>> : c \in PairCalls }

InitPairs ==
    /\ AppStart(<<>>)
    /\ sec_points = <<>> /\ sec_circle = None
    /\ call_args \in PairCalls
    /\ call_result = <<>>
    /\ earlier = None
    /\ WidgetsIdle

\* the call calculate_all_intersections([s1, s2], azimuth_length_km) returns
CallIntersections(returned) ==
    /\ call_args[1] = "calculate_all_intersections"
    /\ call_result = <<>>
    /\ call_result' = <<(CHOOSE e \in returned : e[1] = call_args)[2]>>
    /\ UNCHANGED <<appVars, sec_points, sec_circle, call_args, earlier, widgetVars>>

NextPairs == \E returned \in {PairCallMemo} : CallIntersections(returned)

SpecPairs == InitPairs /\ [][NextPairs]_vars

\* calculate_all_intersections has returned from a call with two stations
PairReturned ==
    call_args # <<>> /\ call_args[1] = "calculate_all_intersections" /\ call_result # <<>>

\* the facts of the pair of the call
CallFacts == Facts(call_args[2][1], call_args[2][2], call_args[3])

\* C17 as the specification states it: for each station of a pair with a
\* candidate, the normalised difference between the direction to the candidate
\* and the azimuth is in [0, pi] and is the smallest angle between the two
\* directions.
C17_DeviationWithinZeroAndPi ==
    LET smallest(d) == IF d % (2 * Pi) > Pi THEN 2 * Pi - (d % (2 * Pi)) ELSE d % (2 * Pi)
        angle(dir, azimuth) == smallest(Abs(dir - radians(azimuth)))
    IN  PairReturned /\ CallFacts.crossing # None =>
            /\ 0 <= CallFacts.diff1 /\ CallFacts.diff1 <= Pi
            /\ 0 <= CallFacts.diff2 /\ CallFacts.diff2 <= Pi
            /\ CallFacts.diff1 = angle(CallFacts.dir1, call_args[2][1].azimuth)
            /\ CallFacts.diff2 = angle(CallFacts.dir2, call_args[2][2].azimuth)

\* C16: line_intersection returns None exactly when the direction vectors of
\* the two lines have a zero determinant (parallel lines), and then the pair
\* adds no point; otherwise it returns the point where the two infinite lines
\* cross, wherever that point is along the first line.
C16_NoneExactlyWhenParallel ==
    PairReturned =>
        LET c == CallFacts.chords
            parallel == (c[2][1] - c[1][1]) * (c[4][2] - c[3][2])
                        = (c[2][2] - c[1][2]) * (c[4][1] - c[3][1])
            \* the point (x, y) is on the line through p and q, up to the rounding of x, y
            OnLine(pt, pp, q) ==
                Abs((pt[1] - pp[1]) * (q[2] - pp[2]) - (pt[2] - pp[2]) * (q[1] - pp[1]))
                    <= Abs(q[1] - pp[1]) + Abs(q[2] - pp[2])
        IN  /\ CallFacts.crossing = None <=> parallel
            /\ parallel => call_result[1] = <<>>
            /\ ~parallel =>
                   /\ OnLine(<<CallFacts.crossing[1][2], CallFacts.crossing[1][1]>>, c[1], c[2])
                   /\ OnLine(<<CallFacts.crossing[1][2], CallFacts.crossing[1][1]>>, c[3], c[4])

\* the lines of the pair cross behind the first station: at a parameter t < 0
C16_CrossingBehindFirstStation ==
    /\ PairReturned
    /\ CallFacts.crossing # None
    /\ (CallFacts.crossing[1][2] - CallFacts.chords[1][1])
           * (CallFacts.chords[2][1] - CallFacts.chords[1][1])
       + (CallFacts.crossing[1][1] - CallFacts.chords[1][2])
           * (CallFacts.chords[2][2] - CallFacts.chords[1][2]) < 0

\* C19: every point that calculate_all_intersections returns has a latitude in
\* [-90, 90] and a longitude in [-180, 180]; a candidate outside these ranges
\* is dropped, also when it is ahead of both stations.
C19_ReturnedPointsInRange ==
    PairReturned =>
        /\ \A k \in DOMAIN call_result[1] : InRange(call_result[1][k])
        /\ CallFacts.crossing # None /\ ~InRange(CallFacts.crossing[1])
               => call_result[1] = <<>>

\* a candidate beyond the antimeridian, less than 90 degrees off both azimuths
C19_CandidateBeyondAntimeridian ==
    /\ PairReturned
    /\ CallFacts.crossing # None
    /\ CallFacts.crossing[1][2] > 180 * DegScale
    /\ 0 <= CallFacts.diff1 /\ CallFacts.diff1 < HalfPi
    /\ 0 <= CallFacts.diff2 /\ CallFacts.diff2 < HalfPi

\* C18: calculate_all_intersections visits every pair (i, j) of its n stations
\* with i < j exactly once, never a station with itself, in the order of i then
\* of j; the list it returns has at most n(n-1)/2 points, those of the pairs in
\* the order of the visit.
C18_EachPairOnceInOrder ==
    LET visible == Ticked(stations_table)
        n       == Len(visible)
        pairs   == LoopPairs(n)
    IN  EngineRan =>
            /\ \A k \in DOMAIN pairs :
                   pairs[k][1] \in 1..n /\ pairs[k][2] \in 1..n /\ pairs[k][1] < pairs[k][2]
            /\ \A i \in 1..n : \A j \in (i + 1)..n :
                   Cardinality({k \in DOMAIN pairs : pairs[k] = <<i, j>>}) = 1
            /\ \A k \in DOMAIN pairs : \A l \in DOMAIN pairs :
                   k < l => \/ pairs[k][1] < pairs[l][1]
                            \/ pairs[k][1] = pairs[l][1] /\ pairs[k][2] < pairs[l][2]
            /\ 2 * Len(intersectionPoints) <= n * (n - 1)
            /\ intersectionPoints
                   = AppendIntersections(PairsOf(n), visible, azimuth_length_km)

\* the engine has run on three stations and two of the three pairs have each
\* given a point
C18_ThreeStationsTwoPoints ==
    /\ EngineRan
    /\ Len(Ticked(stations_table)) = 3
    /\ Len(intersectionPoints) = 2

\* C20: the radius that smallest_enclosing_circle returns for a list with at
\* least one point is 0.5 km or more, also when all its points coincide; the
\* empty list, and no other, gives the radius 0, in the circle (0, 0, 0).
C20_RadiusAtLeastHalfKm ==
    sec_circle # None =>
        /\ sec_points # <<>> => sec_circle[1][3] >= KmScale \div 2
        /\ sec_points = <<>> => sec_circle[1] = <<0, 0, 0>>

\* the circle of a list of two or three points that all coincide
C20_CoincidingPoints ==
    /\ sec_circle # None
    /\ Len(sec_points) >= 2
    /\ \A k \in DOMAIN sec_points : sec_points[k] = sec_points[1]
    /\ sec_circle[1] = <<sec_points[1][1], sec_points[1][2], KmScale \div 2>>

\* lat_lon_to_mgrs has returned a grid reference
MgrsReturned ==
    call_args # <<>> /\ call_args[1] = "lat_lon_to_mgrs" /\ call_result # <<>>

\* the zone of the claim C21 for the latitude and longitude of the call, with
\* the quotient of "every other input" taken by the division given
ZoneOfClaim(lat, lon, quotient) ==
    IF 56 * DegScale <= lat /\ lat < 64 * DegScale /\ 3 * DegScale <= lon /\ lon < 12 * DegScale
    THEN 32
    ELSE IF ~(72 * DegScale <= lat /\ lat < 84 * DegScale) THEN quotient + 1
    ELSE IF 0 <= lon /\ lon < 9 * DegScale THEN 31
    ELSE IF 9 * DegScale <= lon /\ lon < 21 * DegScale THEN 33
    ELSE IF 21 * DegScale <= lon /\ lon < 33 * DegScale THEN 35
    ELSE IF 33 * DegScale <= lon /\ lon < 42 * DegScale THEN 37
    ELSE quotient + 1

C22_BandLetterOfTwentyOne ==
    LET table == <<"C", "D", "E", "F", "G", "H", "J", "K", "L", "M", "N",
                   "P", "Q", "R", "S", "T", "U", "V", "W", "X", "X">>
        index == (call_args[2] + 80 * DegScale) \div (8 * DegScale)
    IN  MgrsReturned =>
            IF -80 * DegScale <= call_args[2] /\ call_args[2] <= 84 * DegScale
            THEN index \in 0..20 /\ call_result[1][2][2] = table[index + 1]
            ELSE call_result[1][2][2] = "Z"

\* a call with a latitude of 80 degrees or more: index 20, letter X
C22_LatitudeEightyIsX ==
    /\ MgrsReturned
    /\ call_args[2] >= 80 * DegScale
    /\ call_result[1][2][2] = "X"

\* C22 as the specification states it: the index floor((lat+80)/8) of a
\* latitude in [-80, 84] is inside the table of 20 letters C..X.
C22_BandLetterOfTwenty ==
    LET table == <<"C", "D", "E", "F", "G", "H", "J", "K", "L", "M", "N",
                   "P", "Q", "R", "S", "T", "U", "V", "W", "X">>
        index == (call_args[2] + 80 * DegScale) \div (8 * DegScale)
    IN  MgrsReturned =>
            IF -80 * DegScale <= call_args[2] /\ call_args[2] <= 84 * DegScale
            THEN index \in 0..19 /\ call_result[1][2][2] = table[index + 1]
            ELSE call_result[1][2][2] = "Z"

\* C23 as the claim states it: for a latitude in [-90, 90] and a longitude in
\* [-180, 180], bounds included, the zone at the head of the grid reference is
\* between 1 and 60.
C23_ZoneBetween1And60 ==
    /\ MgrsReturned
    /\ -90 * DegScale <= call_args[2] /\ call_args[2] <= 90 * DegScale
    /\ -180 * DegScale <= call_args[3] /\ call_args[3] <= 180 * DegScale
    =>  call_result[1][2][1] \in 1..60

\* C24 as the claim states it: dd_to_dms returns deg = floor(|dd|), minutes in
\* [0, 59] and seconds in [0, 60), never 60 (seconds in 1/100 second).
C24_ComponentsInRange ==
    call_args # <<>> /\ call_args[1] = "dd_to_dms" /\ call_result # <<>> =>
        /\ call_result[1][1] = Abs(call_args[2]) \div MicroDeg
        /\ call_result[1][2] \in 0..59
        /\ 0 <= call_result[1][3] /\ call_result[1][3] < 6000

(***************************************************************************)
(* MissionTimer: src/main.py, lines 1583 to 1672.  Times are in seconds.   *)
(* The field "resumed" is no field of the widget: it records that start    *)
(* has found the start_time of an earlier start.                           *)
(***************************************************************************)
\* the last second of the clock
MaxClock == 5

\* the variables that the widgets other than the one under test leave alone
restVars == <<appVars, callVars, earlier>>

\* MissionTimer.__init__
InitMissionTimer ==
    /\ AppStart(<<>>)
    /\ CallIdle
    /\ earlier = None
    /\ clock = 0
    /\ mission_timer = [start_time |-> None, elapsed |-> 0, running |-> FALSE,
                        lcd |-> 0, start_label |-> None, timer |-> FALSE,
                        start_btn |-> TRUE, stop_btn |-> FALSE,
                        resumed |-> FALSE]
    /\ history_dialog = None /\ stations_widget = None
    /\ tile_downloader = None /\ update_timer = None

\* a second passes
ClockTick ==
    /\ clock < MaxClock
    /\ clock' = clock + 1
    /\ UNCHANGED <<restVars, mission_timer, history_dialog, stations_widget,
                   tile_downloader, update_timer>>

\* MissionTimer.start that takes datetime.now() at every call
MissionTimer_start_restamps ==
    /\ mission_timer' =
           IF mission_timer.running THEN mission_timer
           ELSE [mission_timer EXCEPT !.start_time = Some(clock),
                                      !.start_label = Some(clock),
                                      !.resumed = (mission_timer.start_time # None),
                                      !.running = TRUE, !.timer = TRUE,
                                      !.start_btn = FALSE, !.stop_btn = TRUE]
    /\ UNCHANGED <<restVars, clock, history_dialog, stations_widget,
                   tile_downloader, update_timer>>

\* MissionTimer.start
MissionTimer_start ==
    /\ mission_timer' =
           IF mission_timer.running THEN mission_timer
           ELSE [mission_timer EXCEPT
                     !.start_time = IF @ = None THEN Some(clock) ELSE @,
                     !.start_label = IF mission_timer.start_time = None
                                     THEN Some(clock) ELSE @,
                     !.resumed = (mission_timer.start_time # None),
                     !.running = TRUE, !.timer = TRUE,
                     !.start_btn = FALSE, !.stop_btn = TRUE]
    /\ UNCHANGED <<restVars, clock, history_dialog, stations_widget,
                   tile_downloader, update_timer>>

\* what MissionTimer.stop leaves of the timer t
Stopped(t) ==
    IF t.running
    THEN [t EXCEPT !.running = FALSE, !.timer = FALSE, !.start_btn = TRUE, !.stop_btn = FALSE]
    ELSE t

\* MissionTimer.stop
MissionTimer_stop ==
    /\ mission_timer' = Stopped(mission_timer)
    /\ UNCHANGED <<restVars, clock, history_dialog, stations_widget,
                   tile_downloader, update_timer>>

\* MissionTimer.reset
MissionTimer_reset ==
    /\ mission_timer' = [Stopped(mission_timer) EXCEPT
                             !.start_time = None, !.elapsed = 0, !.lcd = 0,
                             !.start_label = None, !.start_btn = TRUE,
                             !.resumed = FALSE]
    /\ UNCHANGED <<restVars, clock, history_dialog, stations_widget,
                   tile_downloader, update_timer>>

\* MissionTimer.update_display, on a timeout of MissionTimer.timer
MissionTimer_update_display ==
    /\ mission_timer.timer
    /\ mission_timer' =
           IF mission_timer.running /\ mission_timer.start_time # None
           THEN [mission_timer EXCEPT !.elapsed = clock - mission_timer.start_time[1],
                                      !.lcd = clock - mission_timer.start_time[1]]
           ELSE mission_timer
    /\ UNCHANGED <<restVars, clock, history_dialog, stations_widget,
                   tile_downloader, update_timer>>

NextMissionTimer ==
    \/ ClockTick
    \/ MissionTimer_start
    \/ MissionTimer_stop
    \/ MissionTimer_reset
    \/ MissionTimer_update_display

SpecMissionTimer == InitMissionTimer /\ [][NextMissionTimer]_vars

\* C30: in every state that start, stop and reset reach, running implies a
\* start_time, the start button is enabled exactly when the timer is not
\* running and the stop button exactly when it is; a start after a stop leaves
\* the start_time of the first start; reset leaves the timer not running, with
\* no start_time and a zero elapsed time.
C30_MissionTimerConsistent ==
    /\ [](mission_timer # None =>
              /\ mission_timer.running => mission_timer.start_time # None
              /\ mission_timer.start_btn <=> ~mission_timer.running
              /\ mission_timer.stop_btn <=> mission_timer.running)
    /\ [][/\ MissionTimer_start /\ mission_timer.start_time # None
             => mission_timer'.start_time = mission_timer.start_time
          /\ MissionTimer_reset
             => /\ ~mission_timer'.running
                /\ mission_timer'.start_time = None
                /\ mission_timer'.elapsed = 0]_vars

\* the timer has run, has been stopped and has been started again, later than
\* its start_time
C30_StartedAgain ==
    /\ mission_timer # None
    /\ mission_timer.running
    /\ mission_timer.resumed
    /\ mission_timer.elapsed > 0
    /\ mission_timer.start_time[1] < clock

(***************************************************************************)
(* HistoryDialog: src/main.py, lines 503 to 577.  The fields "before" and  *)
(* "selected" are no fields of the dialog: they keep the history and the   *)
(* selection that the last _delete_selected has found.                     *)
(***************************************************************************)
\* the most records of a history
MaxHistory == 3

\* a sequence with its item at index i (from 1) removed: list.pop(i - 1)
Pop(list, i) == SubSeq(list, 1, i - 1) \o SubSeq(list, i + 1, Len(list))

\* _populate_table: the rows of the table, the last record first
Reversed(list) == [i \in 1..Len(list) |-> list[Len(list) + 1 - i]]

\* the loop of _delete_selected with the rows taken in increasing order
PopSelected_increasing(list, selected) ==
    LET sorted[rows \in SUBSET selected] ==
            IF rows = {} THEN <<>>
            ELSE LET first == CHOOSE r \in rows : \A q \in rows : r <= q
                 IN  <<first>> \o sorted[rows \ {first}]
        loop[k \in 0..Cardinality(selected)] ==
            IF k = 0 THEN [history |-> list, total |-> Len(list)]
            ELSE LET history_idx == loop[k - 1].total - 1 - sorted[selected][k]
                 IN  IF 0 <= history_idx /\ history_idx < Len(loop[k - 1].history)
                     THEN [history |-> Pop(loop[k - 1].history, history_idx + 1),
                           total   |-> loop[k - 1].total - 1]
                     ELSE loop[k - 1]
    IN  loop[Cardinality(selected)].history

\* the loop of _delete_selected over sorted(set(rows), reverse=True): the
\* history it leaves (rows from 0, as QTableWidgetItem.row())
PopSelected(list, selected) ==
    LET sorted[rows \in SUBSET selected] ==
            IF rows = {} THEN <<>>
            ELSE LET last == CHOOSE r \in rows : \A q \in rows : r >= q
                 IN  <<last>> \o sorted[rows \ {last}]
        loop[k \in 0..Cardinality(selected)] ==
            IF k = 0 THEN [history |-> list, total |-> Len(list)]
            ELSE LET history_idx == loop[k - 1].total - 1 - sorted[selected][k]
                 IN  IF 0 <= history_idx /\ history_idx < Len(loop[k - 1].history)
                     THEN [history |-> Pop(loop[k - 1].history, history_idx + 1),
                           total   |-> loop[k - 1].total - 1]
                     ELSE loop[k - 1]
    IN  loop[Cardinality(selected)].history

\* HistoryDialog.__init__ on a history of at most MaxHistory records
InitHistory ==
    /\ AppStart(<<>>)
    /\ CallIdle
    /\ earlier = None
    /\ clock = 0
    /\ \E list \in UNION { [1..n -> {"r1", "r2", "r3"}] : n \in 0..MaxHistory } :
           history_dialog = [history |-> list, table |-> Reversed(list),
                             before |-> list, selected |-> {}]
    /\ mission_timer = None /\ stations_widget = None
    /\ tile_downloader = None /\ update_timer = None

\* HistoryDialog._delete_selected with the rows "selected" selected in the table
HistoryDialog_delete_selected(selected) ==
    /\ history_dialog' =
           IF selected = {}
           THEN [history_dialog EXCEPT !.before = history_dialog.history, !.selected = {}]
           ELSE [history  |-> PopSelected(history_dialog.history, selected),
                 table    |-> Reversed(PopSelected(history_dialog.history, selected)),
                 before   |-> history_dialog.history,
                 selected |-> selected]
    /\ UNCHANGED <<restVars, clock, mission_timer, stations_widget, tile_downloader,
                   update_timer>>

NextHistory ==
    \E selected \in SUBSET (0..(Len(history_dialog.table) - 1)) :
        HistoryDialog_delete_selected(selected)

SpecHistory == InitHistory /\ [][NextHistory]_vars

\* C29: _delete_selected removes exactly the records that the selected rows of
\* the table show, the table showing the last record of the history on row 0:
\* the history left is the history before without the records of these rows,
\* in the order it had, and the table shows it, last record first.
C29_SelectedRowsRemoved ==
    history_dialog # None =>
        LET before == history_dialog.before
            kept   == { i \in 1..Len(before) : (Len(before) - i) \notin history_dialog.selected }
            place(i) == Cardinality({ j \in kept : j <= i })
        IN  /\ Len(history_dialog.history) = Cardinality(kept)
            /\ \A i \in kept : history_dialog.history[place(i)] = before[i]
            /\ history_dialog.table = Reversed(history_dialog.history)

\* two rows that are not neighbours have been deleted from a history of three
\* different records, and the record between them is left
C29_FirstAndLastRowDeleted ==
    /\ history_dialog # None
    /\ history_dialog.before = <<"r1", "r2", "r3">>
    /\ history_dialog.selected = {0, 2}
    /\ history_dialog.history = <<"r2">>

(***************************************************************************)
(* StationsTableWidget: src/main.py, lines 1306 to 1581.  "rows" are the   *)
(* rows of the QTableWidget, each named by the station_id of the widgets   *)
(* in its cells; a row of station_rows holds its station_id and the index  *)
(* "r" that the lambdas of its colour, record and delete buttons have      *)
(* captured.  Indices are from 1 (row 0 of the code is row 1).             *)
(***************************************************************************)
\* the most rows of the table, and the most station_id that uuid4 is asked for
MaxRows == 3
MaxStationIds == 4

\* STATION_COLORS, and the colours that the QColorDialog of _choose_color gives
\* (None: the dialog is cancelled, the colour is not valid)
STATION_COLORS == <<"#e74c3c", "#3498db", "#2ecc71", "#9b59b6",
                    "#f39c12", "#1abc9c", "#e91e63", "#795548">>
DialogColors == {None, Some("#000000")}

\* _delete_station that leaves the lambdas of the rows below as they are
DeleteStation_no_reconnect(w, row) ==
    IF row > Len(w.station_rows) THEN w
    ELSE [w EXCEPT !.rows = Pop(w.rows, row), !.station_rows = Pop(w.station_rows, row)]

\* _delete_station(row): the widget it leaves
DeleteStation(w, row) ==
    IF row > Len(w.station_rows) THEN w
    ELSE [w EXCEPT
              !.rows = Pop(w.rows, row),
              !.station_rows =
                  [i \in 1..(Len(w.station_rows) - 1) |->
                       IF i < row THEN w.station_rows[i]
                       ELSE [Pop(w.station_rows, row)[i] EXCEPT
                                 !.color_r = i, !.record_r = i, !.delete_r = i]]]

\* StationsTableWidget.__init__
InitStationsTable ==
    /\ AppStart(<<>>)
    /\ CallIdle
    /\ earlier = None
    /\ clock = 0
    /\ stations_widget = [rows |-> <<>>, station_rows |-> <<>>, next_id |-> 1]
    /\ mission_timer = None /\ history_dialog = None
    /\ tile_downloader = None /\ update_timer = None

\* StationsTableWidget.add_station
StationsTable_add_station ==
    /\ Len(stations_widget.rows) < MaxRows
    /\ stations_widget.next_id <= MaxStationIds
    /\ stations_widget' =
           LET row == Len(stations_widget.rows) + 1
           IN  [rows |-> Append(stations_widget.rows, stations_widget.next_id),
                station_rows |->
                    Append(stations_widget.station_rows,
                           [station_id |-> stations_widget.next_id,
                            color |-> STATION_COLORS[(Len(stations_widget.station_rows)
                                                         % Len(STATION_COLORS)) + 1],
                            color_r |-> row, record_r |-> row, delete_r |-> row]),
                next_id |-> stations_widget.next_id + 1]
    /\ UNCHANGED <<restVars, clock, mission_timer, history_dialog, tile_downloader,
                   update_timer>>

\* a click on the delete button in the row at index i of the table: the
\* lambda of the button calls _delete_station with the index it has captured
StationsTable_click_delete(i) ==
    /\ i \in DOMAIN stations_widget.rows
    /\ stations_widget' =
           LET clicked == CHOOSE k \in DOMAIN stations_widget.station_rows :
                              stations_widget.station_rows[k].station_id
                                  = stations_widget.rows[i]
           IN  DeleteStation(stations_widget, stations_widget.station_rows[clicked].delete_r)
    /\ UNCHANGED <<restVars, clock, mission_timer, history_dialog, tile_downloader,
                   update_timer>>

\* a click on the colour button in the row at index i of the table: the
\* lambda of the button calls _choose_color with the index it has captured
StationsTable_click_color(i, color) ==
    /\ i \in DOMAIN stations_widget.rows
    /\ stations_widget' =
           LET clicked == CHOOSE k \in DOMAIN stations_widget.station_rows :
                              stations_widget.station_rows[k].station_id
                                  = stations_widget.rows[i]
               row == stations_widget.station_rows[clicked].color_r
           IN  IF row > Len(stations_widget.station_rows) \/ color = None
               THEN stations_widget
               ELSE [stations_widget EXCEPT !.station_rows[row].color = color[1]]
    /\ UNCHANGED <<restVars, clock, mission_timer, history_dialog, tile_downloader,
                   update_timer>>

\* StationsTableWidget.clear_all
StationsTable_clear_all ==
    /\ stations_widget' = [stations_widget EXCEPT !.rows = <<>>, !.station_rows = <<>>]
    /\ UNCHANGED <<restVars, clock, mission_timer, history_dialog, tile_downloader,
                   update_timer>>

NextStationsTable ==
    \/ StationsTable_add_station
    \/ \E i \in 1..MaxRows : StationsTable_click_delete(i)
    \/ \E i \in 1..MaxRows, color \in DialogColors : StationsTable_click_color(i, color)
    \/ StationsTable_clear_all

SpecStationsTable == InitStationsTable /\ [][NextStationsTable]_vars

\* C28: after any add_station, _delete_station and clear_all, station_rows has
\* as many entries as the table has rows, the entry at index i is the one of
\* the row at index i, and its colour, record and delete buttons call with the
\* index i; a click on the delete button of a row removes that row and leaves
\* the other rows, their order and their station_id.
C28_ButtonsBoundToTheirRow ==
    /\ [](stations_widget # None =>
              /\ Len(stations_widget.station_rows) = Len(stations_widget.rows)
              /\ \A i \in DOMAIN stations_widget.station_rows :
                     /\ stations_widget.station_rows[i].station_id = stations_widget.rows[i]
                     /\ stations_widget.station_rows[i].color_r = i
                     /\ stations_widget.station_rows[i].record_r = i
                     /\ stations_widget.station_rows[i].delete_r = i)
    /\ [][\A i \in 1..MaxRows :
              StationsTable_click_delete(i) =>
                  /\ stations_widget'.rows = Pop(stations_widget.rows, i)
                  /\ Len(stations_widget'.station_rows) = Len(stations_widget.rows) - 1
                  /\ \A k \in DOMAIN stations_widget'.station_rows :
                         stations_widget'.station_rows[k].station_id
                             = Pop(stations_widget.rows, i)[k]]_vars
    /\ [][\A i \in 1..MaxRows, color \in DialogColors :
              StationsTable_click_color(i, color) =>
                  /\ stations_widget'.rows = stations_widget.rows
                  /\ \A k \in DOMAIN stations_widget.station_rows :
                         k # i => stations_widget'.station_rows[k]
                                      = stations_widget.station_rows[k]]_vars

\* the second of three rows has been deleted: the third station is on row 2
\* and its buttons call with 2
C28_MiddleRowDeleted ==
    /\ stations_widget # None
    /\ stations_widget.rows = <<1, 3>>
    /\ stations_widget.station_rows[2].station_id = 3
    /\ stations_widget.station_rows[2].delete_r = 2

(***************************************************************************)
(* The debounced map update of MainWindow: src/main.py, lines 1705 to      *)
(* 1707, 2028 to 2064, 2648 to 2649 and 2681 to 2701.  Time passes in      *)
(* steps of TickMs.  The record update_timer holds what the event loop of  *)
(* MainWindow has pending:                                                 *)
(*   remaining  None when update_timer is not active, else the ms until    *)
(*              its timeout (0: the timeout is due)                        *)
(*   loads      the loads of map_view whose loadFinished is not delivered  *)
(*   checks     the pending QTimer.singleShot(500, _check_map_ready)       *)
(* and the history that the properties read:                               *)
(*   changes    the stationDataChanged emitted so far, which stands for    *)
(*              the state of the stations table                            *)
(*   read       the state of the table that the last _do_update_map run    *)
(*              past its map_ready guard has read                          *)
(*   since_change  ms since the last change, capped at DebounceMs          *)
(*   burst      the changes of the burst that the last change is in        *)
(*   timer_runs the _do_update_map runs of update_timer since that change  *)
(*   reloads    the _reload_map calls after the one of _setup_map          *)
(*   while_loading  a change was made while map_ready was false            *)
(***************************************************************************)
\* update_timer.start(150)
DebounceMs == 150
TickMs == 50
MaxChanges == 3
MaxReloads == 2

\* a _schedule_update that leaves a running update_timer alone
schedule_update_keeps_running(t) ==
    IF t.remaining # None THEN t ELSE [t EXCEPT !.remaining = Some(DebounceMs)]

\* _schedule_update: update_timer.start(150) starts the timer, again when it runs
schedule_update(t) == [t EXCEPT !.remaining = Some(DebounceMs)]

\* _do_update_map: it returns when the map is not ready, else it reads the table
do_update_map(t, ready) == IF ~ready THEN t ELSE [t EXCEPT !.read = t.changes]

\* a callback of _check_map_ready that does not call _do_update_map
check_map_ready_without_update(t) == [t EXCEPT !.checks = @ - 1]

\* the callback of _check_map_ready with a true result, after map_ready = True
check_map_ready_callback(t) == do_update_map([t EXCEPT !.checks = @ - 1], TRUE)

debounceRest == <<stations_table, azimuth_length_km, show_intersection,
                  intersectionCircle, intersectionPoints, intersection_label,
                  last_intersection_center, mission_intersection, fresh, callVars,
                  earlier, clock, mission_timer, history_dialog, stations_widget,
                  tile_downloader>>

\* MainWindow.__init__: the timer is made, _setup_map calls _reload_map
InitDebounce ==
    /\ AppStart(<<>>)
    /\ CallIdle
    /\ earlier = None
    /\ clock = 0
    /\ mission_timer = None /\ history_dialog = None
    /\ stations_widget = None /\ tile_downloader = None
    /\ update_timer = [remaining |-> None, loads |-> 1, checks |-> 0,
                       changes |-> 0, read |-> 0, since_change |-> DebounceMs,
                       burst |-> 0, timer_runs |-> 0, reloads |-> 0,
                       while_loading |-> FALSE]

\* stationDataChanged is emitted: _schedule_update
StationDataChanged ==
    /\ update_timer.changes < MaxChanges
    /\ update_timer' =
           [schedule_update(update_timer) EXCEPT
                !.changes = @ + 1,
                !.since_change = 0,
                !.burst = IF update_timer.since_change < DebounceMs THEN @ + 1 ELSE 1,
                !.timer_runs = 0,
                !.while_loading = @ \/ ~map_ready]
    /\ UNCHANGED <<map_ready, debounceRest>>

\* TickMs pass; a timeout that is due may be delivered late
Tick ==
    /\ update_timer' =
           [update_timer EXCEPT
                !.remaining = IF @ = None THEN None
                              ELSE Some(IF @[1] > TickMs THEN @[1] - TickMs ELSE 0),
                !.since_change = IF @ + TickMs < DebounceMs THEN @ + TickMs
                                 ELSE DebounceMs]
    /\ UNCHANGED <<map_ready, debounceRest>>

\* update_timer.timeout: the single-shot timer stops and _do_update_map runs
UpdateTimerTimeout ==
    /\ update_timer.remaining = Some(0)
    /\ update_timer' =
           [do_update_map(update_timer, map_ready) EXCEPT
                !.remaining = None,
                !.timer_runs = @ + 1]
    /\ UNCHANGED <<map_ready, debounceRest>>

\* _reload_map
MapReload ==
    /\ update_timer.reloads < MaxReloads
    /\ map_ready' = FALSE
    /\ update_timer' = [update_timer EXCEPT !.loads = @ + 1, !.reloads = @ + 1]
    /\ UNCHANGED debounceRest

\* _on_load_finished(ok)
MapLoadFinished(ok) ==
    /\ update_timer.loads > 0
    /\ update_timer' = [update_timer EXCEPT
                            !.loads = @ - 1,
                            !.checks = IF ok THEN @ + 1 ELSE @]
    /\ UNCHANGED <<map_ready, debounceRest>>

\* _check_map_ready and its callback(result): without a result it is
\* scheduled again
MapCheckReady(result) ==
    /\ update_timer.checks > 0
    /\ IF result
       THEN /\ map_ready' = TRUE
            /\ update_timer' = check_map_ready_callback(update_timer)
       ELSE UNCHANGED <<map_ready, update_timer>>
    /\ UNCHANGED debounceRest

NextDebounce ==
    \/ StationDataChanged
    \/ Tick
    \/ UpdateTimerTimeout
    \/ MapReload
    \/ \E ok \in BOOLEAN : MapLoadFinished(ok)
    \/ \E result \in BOOLEAN : MapCheckReady(result)

SpecDebounce == InitDebounce /\ [][NextDebounce]_vars

\* The event loop lets time pass and delivers the timeout of a timer that is due.
SpecDebounceFair ==
    SpecDebounce /\ WF_vars(Tick) /\ WF_vars(UpdateTimerTimeout)

\* C25: every _schedule_update starts the one single-shot timer again with
\* 150 ms; update_timer runs _do_update_map only when 150 ms have passed since
\* the last change, so no run of it lies between two changes of a burst, and
\* it runs at most once after the last change.  (The run that the callback
\* of _check_map_ready makes is started by the map, not by the changes.)
C25_OneRunAfterTheBurst ==
    /\ [][StationDataChanged => update_timer'.remaining = Some(DebounceMs)]_vars
    /\ [][UpdateTimerTimeout =>
              /\ update_timer.since_change >= DebounceMs
              /\ update_timer.timer_runs = 0
              /\ update_timer'.remaining = None]_vars
    /\ [][(StationDataChanged /\ update_timer.since_change < DebounceMs) =>
              update_timer.timer_runs = 0]_vars
    /\ [](update_timer # None => update_timer.timer_runs <= 1)

\* three changes less than 150 ms apart, then the one run of the timer
C25_BurstOfThreeOneRun ==
    /\ update_timer # None
    /\ update_timer.burst = 3
    /\ update_timer.timer_runs = 1
    /\ update_timer.remaining = None

\* C26: when the map ends up ready, every state of the stations table is in
\* the end read by a _do_update_map run that passes its map_ready guard, also
\* after a change made while map_ready was false.
C26_NoChangeLost ==
    <>[]map_ready =>
        \A n \in 0..MaxChanges :
            [](update_timer.changes = n => <>(update_timer.read >= n))

\* a change made while the map was loading has been read by a run
C26_ChangeWhileLoadingRead ==
    /\ update_timer # None
    /\ update_timer.while_loading
    /\ update_timer.changes = MaxChanges
    /\ update_timer.read = MaxChanges
    /\ map_ready

(***************************************************************************)
(* TileDownloader: src/main.py, lines 454 to 500, started in a thread by   *)
(* MainWindow._do_download_tiles, lines 3049 to 3068.  The record          *)
(* tile_downloader holds the object and the thread that runs download:     *)
(*   total, cancelled, downloaded, failed   as in the code                 *)
(*   i         the tiles that the loop has gone through                    *)
(*   pc        where the thread is: "for" at the head of the loop, "tile"  *)
(*             after the test of cancelled, "finished" after the loop,     *)
(*             "done" when download has returned, "raised" when an         *)
(*             exception has ended the thread                              *)
(*   signals   the signals emitted so far, in order                        *)
(*   observed  the loop has read cancelled as True                         *)
(***************************************************************************)
MaxTiles == 3

\* what happens to one tile: it is in the cache (os.path.exists), urlopen and
\* the write succeed, they raise inside the try, or os.makedirs raises
\* before the try
TileOutcomes == {"cache", "OK", "ERREUR", "OSError"}

\* TileDownloader.__init__ and thread.start()
InitTiles ==
    /\ AppStart(<<>>)
    /\ CallIdle
    /\ earlier = None
    /\ clock = 0
    /\ mission_timer = None /\ history_dialog = None
    /\ stations_widget = None /\ update_timer = None
    /\ \E total \in 0..MaxTiles :
           tile_downloader = [total |-> total, cancelled |-> FALSE, downloaded |-> 0,
                              failed |-> 0, i |-> 0, pc |-> "for", signals |-> <<>>,
                              observed |-> FALSE]

\* TileDownloader.cancel, called in the GUI thread
TileDownloader_cancel ==
    /\ ~tile_downloader.cancelled
    /\ tile_downloader' = [tile_downloader EXCEPT !.cancelled = TRUE]
    /\ UNCHANGED <<restVars, clock, mission_timer, history_dialog, stations_widget,
                   update_timer>>

\* the head of the loop of download: the next tile, and the test of cancelled
TileDownloader_for ==
    /\ tile_downloader.pc = "for"
    /\ tile_downloader' =
           IF tile_downloader.i = tile_downloader.total
           THEN [tile_downloader EXCEPT !.pc = "finished"]
           ELSE IF tile_downloader.cancelled
           THEN [tile_downloader EXCEPT !.pc = "finished", !.observed = TRUE]
           ELSE [tile_downloader EXCEPT !.pc = "tile"]
    /\ UNCHANGED <<restVars, clock, mission_timer, history_dialog, stations_widget,
                   update_timer>>

\* the body of the loop for one tile
TileDownloader_tile(outcome) ==
    /\ tile_downloader.pc = "tile"
    /\ tile_downloader' =
           IF outcome = "OSError"
           THEN [tile_downloader EXCEPT !.pc = "raised"]
           ELSE [tile_downloader EXCEPT
                     !.downloaded = IF outcome = "ERREUR" THEN @ ELSE @ + 1,
                     !.failed = IF outcome = "ERREUR" THEN @ + 1 ELSE @,
                     !.signals = Append(@, <<"progress", tile_downloader.i + 1,
                                             tile_downloader.total, outcome>>),
                     !.i = @ + 1,
                     !.pc = "for"]
    /\ UNCHANGED <<restVars, clock, mission_timer, history_dialog, stations_widget,
                   update_timer>>

\* self.finished.emit(downloaded, failed) and the return of download
TileDownloader_finished ==
    /\ tile_downloader.pc = "finished"
    /\ tile_downloader' =
           [tile_downloader EXCEPT
                !.signals = Append(@, <<"finished", tile_downloader.downloaded,
                                        tile_downloader.failed>>),
                !.pc = "done"]
    /\ UNCHANGED <<restVars, clock, mission_timer, history_dialog, stations_widget,
                   update_timer>>

NextTiles ==
    \/ TileDownloader_cancel
    \/ TileDownloader_for
    \/ \E outcome \in TileOutcomes : TileDownloader_tile(outcome)
    \/ TileDownloader_finished

\* the thread of download keeps running until download returns or raises
SpecTiles ==
    InitTiles /\ [][NextTiles]_vars
    /\ WF_vars(TileDownloader_for \/ TileDownloader_finished
               \/ \E outcome \in TileOutcomes : TileDownloader_tile(outcome))

\* C27: the thread of download ends, and when it has ended finished has been
\* emitted once, as the last signal, with the counts of the loop; downloaded
\* + failed is the number of tiles gone through, which is the total when
\* cancel was never called; once the loop has read cancelled as True no tile
\* is fetched or counted.
C27_FinishedOnceAfterProgress ==
    /\ <>(tile_downloader.pc \in {"done", "raised"})
    /\ [](tile_downloader.pc \in {"done", "raised"} =>
              /\ Len(tile_downloader.signals) = tile_downloader.i + 1
              /\ \A k \in 1..tile_downloader.i : tile_downloader.signals[k][1] = "progress"
              /\ tile_downloader.signals[tile_downloader.i + 1]
                     = <<"finished", tile_downloader.downloaded, tile_downloader.failed>>
              /\ (~tile_downloader.cancelled => tile_downloader.i = tile_downloader.total))
    /\ [](tile_downloader.downloaded + tile_downloader.failed = tile_downloader.i)
    /\ [][tile_downloader.observed =>
              /\ tile_downloader'.i = tile_downloader.i
              /\ tile_downloader'.downloaded = tile_downloader.downloaded
              /\ tile_downloader'.failed = tile_downloader.failed]_vars

====
